---- MODULE Spec2Model ----
(***************************************************************************)
(* kinecosystem/agora-common: the Kin Solana transaction parser            *)
(* (kin.ParseTransaction) together with the instruction builders and       *)
(* decompilers of the system, token, associated-token and memo programs    *)
(* it dispatches to.                                                       *)
(*                                                                         *)
(* A call of ParseTransaction is a state machine: Start checks the hard    *)
(* preconditions, ParseInstruction is one iteration of the instruction     *)
(* loop (it may consume up to four instructions), ValidateRegion is one    *)
(* iteration of the post-pass over the regions, Finish is the pair of      *)
(* checks that follows the post-pass.                                      *)
(***************************************************************************)
EXTENDS Integers, Sequences, FiniteSets, TLC

(***************************************************************************)
(* Bounds of the explored inputs.                                          *)
(***************************************************************************)
MaxInstructions == 3
MaxCreateLen == 4
MaxMemoLen == 3
MaxInvoiceLen == 4
MaxAccountedLen == 5

(***************************************************************************)
(* Program constants.                                                      *)
(***************************************************************************)
PublicKeySize == 32
AccountSize == 165
Sum224Size == 28
ForeignKeySize == 29

\* system program command tags (u32)
commandCreateAccount == 0
commandAdvanceNonceAccount == 4

\* token program command tags (first data byte)
commandInitializeAccount == 1
commandTransfer == 3
commandSetAuthority == 6
commandMintTo == 7
commandCloseAccount == 9

AuthorityTypeAccountHolder == 2
AuthorityTypeCloseAccount == 3

\* agora memo
magicByte == 1
TransactionTypeUnknown == 0
TransactionTypeEarn == 1
TransactionTypeSpend == 2
TransactionTypeP2P == 3

NoError == ""

\* A nil pointer is the empty sequence, a non-nil pointer a one-element one.
None == <<>>
Some(x) == <<x>>

(***************************************************************************)
(* Keys.  A public key is its 32 bytes; bytes.Equal is equality.           *)
(***************************************************************************)
Key(n) == [j \in 1..PublicKeySize |-> n]

\* system.ProgramKey is the zero value of [32]byte
SystemProgramKey == [j \in 1..PublicKeySize |-> 0]

TokenProgramKey ==
    <<6, 221, 246, 225, 215, 101, 161, 147, 217, 203, 225, 70, 206, 235, 121, 172,
      28, 180, 133, 237, 95, 91, 55, 145, 58, 140, 245, 133, 126, 255, 0, 169>>

AssociatedTokenAccountProgramKey ==
    <<140, 151, 37, 143, 78, 36, 137, 241, 187, 61, 16, 41, 20, 142, 13, 131,
      11, 90, 19, 153, 218, 255, 16, 132, 4, 142, 123, 216, 219, 233, 248, 89>>

\* base58 "SysvarRent111111111111111111111111111111111"
RentSysVar ==
    <<6, 167, 213, 23, 25, 44, 92, 81, 33, 140, 201, 76, 61, 74, 241, 127,
      88, 218, 238, 8, 155, 161, 253, 68, 227, 219, 217, 138, 0, 0, 0, 0>>

\* base58 "SysvarRecentB1ockHashes11111111111111111111"
RecentBlockhashesSysVar ==
    <<6, 167, 213, 23, 25, 44, 86, 142, 224, 138, 132, 95, 115, 210, 151, 136,
      207, 3, 92, 49, 69, 178, 26, 179, 68, 216, 6, 46, 169, 64, 0, 0>>

\* memo.ProgramKey, base58 "Memo1UhkJRfHyvLMcVucJwxXeuD728EqVDDwQDxFMNo"
MemoProgramKey ==
    <<5, 74, 83, 80, 248, 93, 200, 130, 214, 20, 165, 86, 114, 120, 138, 41,
      109, 223, 30, 171, 171, 208, 166, 6, 120, 136, 73, 50, 244, 238, 246, 160>>

\* The associated account of a wallet and a mint is a program derived
\* address, found by a SHA-256 search (solana.FindProgramAddress); it is
\* modelled by a key that depends on the wallet and the mint only.
GetAssociatedAccount(wallet, mint) == Key(100 + ((3 * wallet[1] + mint[1]) % 100))

\* The keys of the explored transactions (generateKeys of the tests).
Subsidizer == Key(11)
Wallet == Key(12)
Mint == Key(13)
AddrA == GetAssociatedAccount(Wallet, Mint)
AddrB == Key(15)
OtherProgramKey == Key(16)

\* tx.Message.Accounts: the account table, the subsidizer (fee payer) first.
AccountTable ==
    <<Subsidizer, Wallet, Mint, AddrA, AddrB, SystemProgramKey, TokenProgramKey,
      AssociatedTokenAccountProgramKey, MemoProgramKey, RentSysVar, OtherProgramKey,
      RecentBlockhashesSysVar>>

(***************************************************************************)
(* encoding/binary, little and big endian.                                 *)
(***************************************************************************)
RECURSIVE PutUint(_, _)
PutUint(width, v) ==
    IF width = 0 THEN <<>> ELSE <<v % 256>> \o PutUint(width - 1, v \div 256)

RECURSIVE LittleEndianUint(_)
LittleEndianUint(b) ==
    IF b = <<>> THEN 0
    ELSE IF \A k \in 2..Len(b) : b[k] = 0 THEN b[1]
    ELSE b[1] + 256 * LittleEndianUint(Tail(b))

RECURSIVE BigEndianUint(_)
BigEndianUint(b) ==
    IF b = <<>> THEN 0
    ELSE IF \A k \in 1..(Len(b) - 1) : b[k] = 0 THEN b[Len(b)]
    ELSE b[Len(b)] + 256 * BigEndianUint(SubSeq(b, 1, Len(b) - 1))

(***************************************************************************)
(* solana.Instruction and its compiled form.  An instruction names its     *)
(* keys; compiling replaces each key by its 0-based index in the account   *)
(* table, decompiling reads the table at that index.                       *)
(***************************************************************************)
NewInstruction(program, data, accounts) ==
    [Program |-> program, Data |-> data, Accounts |-> accounts]

IndexOf(key) == (CHOOSE k \in DOMAIN AccountTable : AccountTable[k] = key) - 1

CompileInstruction(ins) ==
    [ProgramIndex |-> IndexOf(ins.Program),
     Accounts |-> [k \in DOMAIN ins.Accounts |-> IndexOf(ins.Accounts[k])],
     Data |-> ins.Data]

\* m.Accounts[idx]
AccountAt(idx) == AccountTable[idx + 1]

\* m.Instructions[index], index 0-based as in the source
InstructionAt(m, index) == m[index + 1]

Ok(v) == [err |-> NoError, v |-> Some(v)]
Fail(msg) == [err |-> msg, v |-> None]

ErrIncorrectProgram == "incorrect program"
ErrIncorrectInstruction == "incorrect instruction"

(***************************************************************************)
(* System program.                                                         *)
(***************************************************************************)
CreateAccount(funder, address, owner, lamports, size) ==
    NewInstruction(
        SystemProgramKey,
        PutUint(4, commandCreateAccount) \o PutUint(8, lamports) \o PutUint(8, size) \o owner,
        <<funder, address>>)

\* a faulty decompiler: the command tag is not looked at
DecompileCreateAccountAnyTag(m, index) ==
    IF index >= Len(m) THEN Fail("instruction doesn't exist")
    ELSE IF AccountAt(InstructionAt(m, index).ProgramIndex) # SystemProgramKey
    THEN Fail(ErrIncorrectProgram)
    ELSE IF Len(InstructionAt(m, index).Accounts) # 2
    THEN Fail("invalid number of accounts")
    ELSE IF Len(InstructionAt(m, index).Data) # 52
    THEN Fail("invalid instruction data size")
    ELSE Ok([Funder |-> AccountAt(InstructionAt(m, index).Accounts[1]),
             Address |-> AccountAt(InstructionAt(m, index).Accounts[2]),
             Lamports |-> LittleEndianUint(SubSeq(InstructionAt(m, index).Data, 5, 12)),
             Size |-> LittleEndianUint(SubSeq(InstructionAt(m, index).Data, 13, 20)),
             Owner |-> SubSeq(InstructionAt(m, index).Data, 21, 20 + PublicKeySize)])

DecompileCreateAccount(m, index) ==
    IF index >= Len(m) THEN Fail("instruction doesn't exist")
    ELSE LET i == InstructionAt(m, index) IN
         IF AccountAt(i.ProgramIndex) # SystemProgramKey THEN Fail(ErrIncorrectProgram)
         ELSE IF Len(i.Accounts) # 2 THEN Fail("invalid number of accounts")
         ELSE IF Len(i.Data) # 52 THEN Fail("invalid instruction data size")
         ELSE IF BigEndianUint(SubSeq(i.Data, 1, 4)) # commandCreateAccount
              THEN Fail(ErrIncorrectInstruction)
         ELSE Ok([Funder |-> AccountAt(i.Accounts[1]),
                  Address |-> AccountAt(i.Accounts[2]),
                  Lamports |-> LittleEndianUint(SubSeq(i.Data, 5, 12)),
                  Size |-> LittleEndianUint(SubSeq(i.Data, 13, 20)),
                  Owner |-> SubSeq(i.Data, 21, 20 + PublicKeySize)])

AdvanceNonce(account, authority) ==
    NewInstruction(
        SystemProgramKey,
        PutUint(4, commandAdvanceNonceAccount),
        <<account, RecentBlockhashesSysVar, authority>>)

(***************************************************************************)
(* Token program.                                                          *)
(***************************************************************************)
InitializeAccount(account, mint, owner) ==
    NewInstruction(
        TokenProgramKey,
        <<commandInitializeAccount>>,
        <<account, mint, owner, RentSysVar>>)

DecompileInitializeAccount(m, index) ==
    IF index >= Len(m) THEN Fail("instruction doesn't exist")
    ELSE LET i == InstructionAt(m, index) IN
         IF AccountAt(i.ProgramIndex) # TokenProgramKey THEN Fail(ErrIncorrectProgram)
         ELSE IF <<commandInitializeAccount>> # i.Data THEN Fail(ErrIncorrectInstruction)
         ELSE IF Len(i.Accounts) # 4 THEN Fail("invalid number of accounts")
         ELSE IF RentSysVar # AccountAt(i.Accounts[4]) THEN Fail("invalid rent program")
         ELSE Ok([Account |-> AccountAt(i.Accounts[1]),
                  Mint |-> AccountAt(i.Accounts[2]),
                  Owner |-> AccountAt(i.Accounts[3])])

\* newAuthority is a byte slice: the empty sequence is "no new authority".
SetAuthority(account, currentAuthority, newAuthority, authorityType) ==
    NewInstruction(
        TokenProgramKey,
        IF Len(newAuthority) > 0
        THEN <<commandSetAuthority, authorityType, 1>> \o newAuthority
        ELSE <<commandSetAuthority, authorityType, 0>>,
        <<account, currentAuthority>>)

DecompileSetAuthority(m, index) ==
    IF index >= Len(m) THEN Fail("instruction doesn't exist")
    ELSE LET i == InstructionAt(m, index) IN
         IF AccountAt(i.ProgramIndex) # TokenProgramKey THEN Fail(ErrIncorrectProgram)
         ELSE IF Len(i.Accounts) # 2 THEN Fail("invalid number of accounts")
         ELSE IF Len(i.Data) < 3 THEN Fail("invalid data size (expect at least 3)")
         ELSE IF i.Data[1] # commandSetAuthority THEN Fail(ErrIncorrectInstruction)
         ELSE IF i.Data[3] = 0 /\ Len(i.Data) # 3 THEN Fail("invalid data size (expect 3)")
         ELSE IF i.Data[3] = 1 /\ Len(i.Data) # 3 + PublicKeySize
              THEN Fail("invalid data size (expect 35)")
         ELSE Ok([Account |-> AccountAt(i.Accounts[1]),
                  CurrentAuthority |-> AccountAt(i.Accounts[2]),
                  Type |-> i.Data[2],
                  NewAuthority |-> IF i.Data[3] = 1
                                   THEN SubSeq(i.Data, 4, 3 + PublicKeySize)
                                   ELSE <<>>])

Transfer(source, dest, owner, amount) ==
    NewInstruction(
        TokenProgramKey,
        <<commandTransfer>> \o PutUint(8, amount),
        <<source, dest, owner>>)

\* a faulty decompiler: the amount is read one byte too far into the data
DecompileTransferAccountShifted(m, index) ==
    IF index >= Len(m) THEN Fail("instruction doesn't exist")
    ELSE IF AccountAt(InstructionAt(m, index).ProgramIndex) # TokenProgramKey
    THEN Fail(ErrIncorrectProgram)
    ELSE IF Len(InstructionAt(m, index).Data) # 9 \/ Len(InstructionAt(m, index).Accounts) # 3
    THEN Fail(ErrIncorrectInstruction)
    ELSE Ok([Source |-> AccountAt(InstructionAt(m, index).Accounts[1]),
             Destination |-> AccountAt(InstructionAt(m, index).Accounts[2]),
             Owner |-> AccountAt(InstructionAt(m, index).Accounts[3]),
             Amount |-> LittleEndianUint(SubSeq(InstructionAt(m, index).Data, 3, 9))])

DecompileTransferAccount(m, index) ==
    IF index >= Len(m) THEN Fail("instruction doesn't exist")
    ELSE LET i == InstructionAt(m, index) IN
         IF AccountAt(i.ProgramIndex) # TokenProgramKey THEN Fail(ErrIncorrectProgram)
         ELSE IF Len(i.Data) = 0 \/ i.Data[1] # commandTransfer
              THEN Fail(ErrIncorrectInstruction)
         ELSE IF Len(i.Accounts) # 3 THEN Fail("invalid number of accounts")
         ELSE IF Len(i.Data) # 9 THEN Fail("invalid instruction data size")
         ELSE Ok([Source |-> AccountAt(i.Accounts[1]),
                  Destination |-> AccountAt(i.Accounts[2]),
                  Owner |-> AccountAt(i.Accounts[3]),
                  Amount |-> LittleEndianUint(SubSeq(i.Data, 2, 9))])

CloseAccount(account, dest, owner) ==
    NewInstruction(
        TokenProgramKey,
        <<commandCloseAccount>>,
        <<account, dest, owner>>)

DecompileCloseAccount(m, index) ==
    IF index >= Len(m) THEN Fail("instruction doesn't exist")
    ELSE LET i == InstructionAt(m, index) IN
         IF AccountAt(i.ProgramIndex) # TokenProgramKey THEN Fail(ErrIncorrectProgram)
         ELSE IF <<commandCloseAccount>> # i.Data THEN Fail(ErrIncorrectInstruction)
         ELSE IF Len(i.Accounts) # 3 THEN Fail("invalid number of accounts")
         ELSE Ok([Account |-> AccountAt(i.Accounts[1]),
                  Destination |-> AccountAt(i.Accounts[2]),
                  Owner |-> AccountAt(i.Accounts[3])])

\* The command of a token instruction: its first data byte (the zero command
\* and an error, which ParseTransaction drops, when there is no data).
GetCommand(m, index) ==
    LET i == InstructionAt(m, index) IN
    IF Len(i.Data) = 0 THEN 0 ELSE i.Data[1]

(***************************************************************************)
(* Associated token account program.                                       *)
(***************************************************************************)
CreateAssociatedTokenAccount(subsidizer, wallet, mint) ==
    NewInstruction(
        AssociatedTokenAccountProgramKey,
        <<>>,
        <<subsidizer, GetAssociatedAccount(wallet, mint), wallet, mint,
          SystemProgramKey, TokenProgramKey, RentSysVar>>)

DecompileCreateAssociatedAccount(m, index) ==
    IF index >= Len(m) THEN Fail("instruction doesn't exist")
    ELSE LET i == InstructionAt(m, index) IN
         IF AccountAt(i.ProgramIndex) # AssociatedTokenAccountProgramKey
         THEN Fail(ErrIncorrectProgram)
         ELSE IF Len(i.Accounts) # 7 THEN Fail("invalid number of accounts")
         ELSE IF Len(i.Data) # 0 THEN Fail("invalid instruction data size")
         ELSE IF SystemProgramKey # AccountAt(i.Accounts[5]) THEN Fail("system program key mismatch")
         ELSE IF TokenProgramKey # AccountAt(i.Accounts[6]) THEN Fail("token program key mismatch")
         ELSE IF RentSysVar # AccountAt(i.Accounts[7]) THEN Fail("rent sysvar mismatch")
         ELSE Ok([Subsidizer |-> AccountAt(i.Accounts[1]),
                  Address |-> AccountAt(i.Accounts[2]),
                  Owner |-> AccountAt(i.Accounts[3]),
                  Mint |-> AccountAt(i.Accounts[4])])

(***************************************************************************)
(* Memo program.  The data of a memo instruction is the bytes of the memo  *)
(* string.                                                                 *)
(***************************************************************************)
MemoInstruction(data) == NewInstruction(MemoProgramKey, data, <<>>)

DecompileMemo(m, index) ==
    IF index >= Len(m) THEN Fail("instruction doesn't exist")
    ELSE LET i == InstructionAt(m, index) IN
         IF AccountAt(i.ProgramIndex) # MemoProgramKey THEN Fail(ErrIncorrectProgram)
         ELSE Ok([Data |-> i.Data])

\* the bytes of an ASCII string, given by its characters
Ascii ==
    ("-" :> 45) @@ ("0" :> 48) @@ ("1" :> 49) @@ ("2" :> 50) @@
    ("a" :> 97) @@ ("b" :> 98) @@ ("c" :> 99) @@ ("x" :> 120) @@ ("y" :> 121) @@
    ("z" :> 122) @@ ("!" :> 33) @@ ("+" :> 43) @@ ("." :> 46)
Bytes(chars) == [k \in DOMAIN chars |-> Ascii[chars[k]]]

(***************************************************************************)
(* encoding/base64, the standard alphabet with padding.                    *)
(***************************************************************************)
Base64Char(v) ==
    IF v < 26 THEN 65 + v
    ELSE IF v < 52 THEN 97 + (v - 26)
    ELSE IF v < 62 THEN 48 + (v - 52)
    ELSE IF v = 62 THEN 43
    ELSE 47

\* the 6 bits of a character, -1 for a character outside the alphabet
Base64Value(c) ==
    IF c \in 65..90 THEN c - 65
    ELSE IF c \in 97..122 THEN c - 97 + 26
    ELSE IF c \in 48..57 THEN c - 48 + 52
    ELSE IF c = 43 THEN 62
    ELSE IF c = 47 THEN 63
    ELSE -1

RECURSIVE Base64EncodeToString(_)
Base64EncodeToString(raw) ==
    IF Len(raw) = 0 THEN <<>>
    ELSE IF Len(raw) = 1
    THEN <<Base64Char(raw[1] \div 4), Base64Char((raw[1] % 4) * 16), 61, 61>>
    ELSE IF Len(raw) = 2
    THEN <<Base64Char(raw[1] \div 4),
           Base64Char((raw[1] % 4) * 16 + raw[2] \div 16),
           Base64Char((raw[2] % 16) * 4), 61>>
    ELSE <<Base64Char(raw[1] \div 4),
           Base64Char((raw[1] % 4) * 16 + raw[2] \div 16),
           Base64Char((raw[2] % 16) * 4 + raw[3] \div 64),
           Base64Char(raw[3] % 64)>>
         \o Base64EncodeToString(SubSeq(raw, 4, Len(raw)))

\* the bytes of one group of four characters; <<-1>> for a corrupt group
Base64Quantum(q, last) ==
    LET v == [k \in 1..4 |-> Base64Value(q[k])] IN
    IF v[1] >= 0 /\ v[2] >= 0 /\ v[3] >= 0 /\ v[4] >= 0
    THEN <<v[1] * 4 + v[2] \div 16, (v[2] % 16) * 16 + v[3] \div 4, (v[3] % 4) * 64 + v[4]>>
    ELSE IF last /\ v[1] >= 0 /\ v[2] >= 0 /\ v[3] >= 0 /\ q[4] = 61
    THEN <<v[1] * 4 + v[2] \div 16, (v[2] % 16) * 16 + v[3] \div 4>>
    ELSE IF last /\ v[1] >= 0 /\ v[2] >= 0 /\ q[3] = 61 /\ q[4] = 61
    THEN <<v[1] * 4 + v[2] \div 16>>
    ELSE <<-1>>

RECURSIVE Base64DecodeString(_)
Base64DecodeString(str) ==
    IF Len(str) = 0 THEN Ok(<<>>)
    ELSE IF Len(str) < 4 THEN Fail("illegal base64 data")
    ELSE LET q == Base64Quantum(SubSeq(str, 1, 4), Len(str) = 4)
             rest == Base64DecodeString(SubSeq(str, 5, Len(str)))
         IN IF q = <<-1>> \/ rest.err # NoError THEN Fail("illegal base64 data")
            ELSE Ok(q \o rest.v[1])

(***************************************************************************)
(* Agora memo: 32 bytes that pack, from the least significant bit of the   *)
(* first byte, the magic (2 bits), the version (3), the transaction type   *)
(* (5), the app index (16) and the foreign key (230 bits: 28 bytes and the *)
(* low 6 bits of the 29th).                                                *)
(***************************************************************************)
MemoSize == 32

\* the arguments NewMemo rejects
NewMemoError(v, t) ==
    IF v > 7 THEN "invalid version"
    ELSE IF t > 31 THEN "invalid transaction type"
    ELSE NoError

\* a faulty packing: the two high bits of the app index are dropped
NewMemoNarrowIndex(v, t, appIndex, foreignKey) ==
    [j \in 1..MemoSize |->
        IF j = 1 THEN magicByte + v * 4 + (t % 8) * 32
        ELSE IF j = 2 THEN (t \div 8) + (appIndex % 64) * 4
        ELSE IF j = 3 THEN (appIndex \div 64) % 256
        ELSE IF j = 4
        THEN IF Len(foreignKey) >= 1 THEN (foreignKey[1] % 64) * 4 ELSE 0
        ELSE (IF j - 4 <= Len(foreignKey) THEN foreignKey[j - 4] \div 64 ELSE 0)
             + (IF j - 3 <= Len(foreignKey) THEN (foreignKey[j - 3] % 64) * 4 ELSE 0)]

NewMemo(v, t, appIndex, foreignKey) ==
    LET fk == [j \in 1..ForeignKeySize |->
                  IF j <= Len(foreignKey) THEN foreignKey[j] ELSE 0]
    IN [j \in 1..MemoSize |->
          IF j = 1 THEN magicByte + v * 4 + (t % 8) * 32
          ELSE IF j = 2 THEN (t \div 8) + (appIndex % 64) * 4
          ELSE IF j = 3 THEN (appIndex \div 64) % 256
          ELSE IF j = 4 THEN (appIndex \div 16384) + (fk[1] % 64) * 4
          ELSE (fk[j - 4] \div 64) + (fk[j - 3] % 64) * 4]

MemoVersion(m) == (m[1] \div 4) % 8
MemoTransactionType(m) == (m[1] \div 32) + (m[2] % 4) * 8
MemoAppIndex(m) == (m[2] \div 4) + m[3] * 64 + (m[4] % 4) * 16384
MemoForeignKey(m) ==
    [j \in 1..ForeignKeySize |->
        IF j < ForeignKeySize THEN (m[j + 3] \div 4) + (m[j + 4] % 4) * 64
        ELSE m[MemoSize] \div 4]

\* lenient validity: the magic and a transaction type other than unknown
IsValidMemo(m) ==
    m[1] % 4 = magicByte /\ MemoTransactionType(m) # TransactionTypeUnknown

\* strict validity: also a version and a type this code knows
IsValidMemoStrict(m) ==
    IsValidMemo(m) /\ MemoVersion(m) <= 1 /\ MemoTransactionType(m) <= TransactionTypeP2P

MemoFromBase64String(b64, strict) ==
    LET raw == Base64DecodeString(b64) IN
    IF raw.err # NoError THEN Fail(raw.err)
    ELSE IF Len(raw.v[1]) # MemoSize THEN Fail("invalid memo size")
    ELSE IF strict /\ ~IsValidMemoStrict(raw.v[1]) THEN Fail("not a valid memo")
    ELSE IF ~strict /\ ~IsValidMemo(raw.v[1]) THEN Fail("not a valid memo")
    ELSE Ok(raw.v[1])

(***************************************************************************)
(* Text memos, "1-{APP_ID}[-...]".                                         *)
(***************************************************************************)
RECURSIVE Split(_, _)
Split(str, sep) ==
    IF \E k \in 1..Len(str) : str[k] = sep
    THEN LET k == CHOOSE k \in 1..Len(str) :
                     str[k] = sep /\ \A j \in 1..(k - 1) : str[j] # sep
         IN <<SubSeq(str, 1, k - 1)>> \o Split(SubSeq(str, k + 1, Len(str)), sep)
    ELSE <<str>>

\* unicode.IsLetter and unicode.IsDigit on ASCII
IsLetter(c) == c \in 65..90 \/ c \in 97..122
IsDigit(c) == c \in 48..57

IsValidAppID(appID) ==
    /\ ~(Len(appID) < 3 \/ Len(appID) > 4)
    /\ \A k \in 1..Len(appID) : IsLetter(appID[k]) \/ IsDigit(appID[k])

AppIDFromTextMemo(memo) ==
    LET parts == Split(memo, Ascii["-"]) IN
    IF Len(parts) < 2 THEN [appID |-> <<>>, ok |-> FALSE]
    ELSE IF parts[1] # Bytes(<<"1">>) THEN [appID |-> <<>>, ok |-> FALSE]
    ELSE IF ~IsValidAppID(parts[2]) THEN [appID |-> <<>>, ok |-> FALSE]
    ELSE [appID |-> parts[2], ok |-> TRUE]

(***************************************************************************)
(* Invoice lists.  An invoice is the sequence of its line items (small     *)
(* numbers); the protobuf encoding is a tag-length-value concatenation and *)
(* SHA-224 a digest of 28 bytes that depends on the encoded bytes only.    *)
(***************************************************************************)
RECURSIVE Marshal(_)
Marshal(invoices) ==
    IF invoices = <<>> THEN <<>>
    ELSE <<10, Len(Head(invoices))>> \o Head(invoices) \o Marshal(Tail(invoices))

RECURSIVE SumSeq(_)
SumSeq(b) == IF b = <<>> THEN 0 ELSE Head(b) + SumSeq(Tail(b))

Sum224(raw) == [j \in 1..Sum224Size |-> (37 * Len(raw) + SumSeq(raw) + j) % 256]

(***************************************************************************)
(* kin.ParseTransaction.                                                   *)
(***************************************************************************)
VARIABLES
    instructions,   \* tx.Message.Instructions, compiled
    signatures,     \* len(tx.Signatures)
    il,             \* the invoice list: None, or Some(its invoices)
    pc,             \* "start", "loop", "validate", "done"
    i,              \* the instruction cursor (0-based)
    parsed,         \* the Tx under construction: AppIndex, AppID, Regions
    err,            \* the returned error, NoError for nil
    r,              \* the region cursor of the post-pass (0-based)
    refCount,       \* regions whose memo references the invoice list
    hasEarn, hasSpend, hasP2P,
    op,             \* the library function a caller applied, "" before the call
    args,           \* the arguments of that call
    ret,            \* what the call returned
    conf,           \* the config of the SQS task processor
    shutdownCh,     \* TRUE once the processor's shutdownCh is closed
    messages,       \* the SQS queue: per message its state and history
    workers,        \* per task worker its position and its processTask locals
    callers,        \* per caller of Submit and Shutdown its position in the call
    shutdownOnce,   \* the queue's shutdownOnce: "new", "running" or "done"
    server,         \* etcd: the value stored under the config's key, and its events
    cfg,            \* the etcd conf struct: val, empty, shutdownCh, the watch context
    watcher,        \* the goroutine running conf.watch: its position and its watch
    observed        \* the values of the puts the watcher has processed, in order

vars == <<instructions, signatures, il, pc, i, parsed, err, r, refCount,
          hasEarn, hasSpend, hasP2P, op, args, ret,
          conf, shutdownCh, messages, workers, callers, shutdownOnce,
          server, cfg, watcher, observed>>

\* the variables of the etcd-backed config
etcd == <<server, cfg, watcher, observed>>

\* the variables of the SQS task processor
api == <<callers, shutdownOnce>>
processor == <<conf, shutdownCh, messages, workers, api>>

\* the variables of a single library call, and those of the task processor
\* for the actions that leave both alone
codec == <<op, args, ret, processor, etcd>>

EmptyRegion ==
    [MemoData |-> <<>>, Memo |-> None,
     Creations |-> <<>>, Transfers |-> <<>>, Closures |-> <<>>]

EmptyTx == [AppIndex |-> 0, AppID |-> <<>>, Regions |-> <<>>]

isMemo(m, index) == AccountAt(InstructionAt(m, index).ProgramIndex) = MemoProgramKey
isSPL(m, index) == AccountAt(InstructionAt(m, index).ProgramIndex) = TokenProgramKey
isSPLAssoc(m, index) ==
    AccountAt(InstructionAt(m, index).ProgramIndex) = AssociatedTokenAccountProgramKey
isSystem(m, index) == AccountAt(InstructionAt(m, index).ProgramIndex) = SystemProgramKey

\* The outcome of one iteration of the instruction loop: the cursor at the
\* end of the body, the regions, the error returned (if any), whether the
\* body left the loop by break.
Continue(index, regions) ==
    [i |-> index, Regions |-> regions, err |-> NoError, brk |-> FALSE]
Break(index, regions) ==
    [i |-> index, Regions |-> regions, err |-> NoError, brk |-> TRUE]
Return(index, regions, msg) ==
    [i |-> index, Regions |-> regions, err |-> msg, brk |-> FALSE]

\* a faulty append: the transfer goes to the first region
AppendTransferFirst(regions, t) ==
    [regions EXCEPT ![1].Transfers = Append(@, t)]

\* parsed.Regions[len(parsed.Regions)-1].X = append(..., x)
AppendCreation(regions, c) ==
    [regions EXCEPT ![Len(regions)].Creations = Append(@, c)]
AppendTransfer(regions, t) ==
    [regions EXCEPT ![Len(regions)].Transfers = Append(@, t)]
\* a faulty append: the closure is not recorded
AppendClosureDropped(regions, c) == regions
AppendClosure(regions, c) ==
    [regions EXCEPT ![Len(regions)].Closures = Append(@, c)]

Creation(create, initialize, createAssoc, closeAuthority, accountHolder) ==
    [Create |-> create, Initialize |-> initialize, CreateAssoc |-> createAssoc,
     CloseAuthority |-> closeAuthority, AccountHolder |-> accountHolder]

\* a faulty check: the size is not looked at
CreateAccountErrorLax(creation) ==
    IF creation.Owner # TokenProgramKey
    THEN "System::CreateAccount must assign owner to the SplToken program"
    ELSE NoError

\* The checks on a decompiled System::CreateAccount.
CreateAccountError(creation) ==
    IF creation.Owner # TokenProgramKey
    THEN "System::CreateAccount must assign owner to the SplToken program"
    ELSE IF creation.Size # AccountSize
    THEN "invalid size in System::CreateAccount"
    ELSE NoError

\* a faulty check: any initialized account is accepted
InitializeErrorLax(creation, initialize) == NoError

\* The check on the InitializeAccount that follows a CreateAccount.
InitializeError(creation, initialize) ==
    IF creation.Address # initialize.Account
    THEN "SplToken::InitializeAccount address does not match System::CreateAccount address"
    ELSE NoError

\* a faulty check: the account of the SetAuthority is not looked at
CloseAuthorityErrorLax(closeAuthority, address) ==
    IF closeAuthority.Type # AuthorityTypeCloseAccount
    THEN "SplToken::SetAuthority must be of type Close following an initialize"
    ELSE NoError

\* The checks on the SetAuthority that follows an initialize or an
\* associated creation, `address` being the created account.
CloseAuthorityError(closeAuthority, address) ==
    IF closeAuthority.Type # AuthorityTypeCloseAccount
    THEN "SplToken::SetAuthority must be of type Close following an initialize"
    ELSE IF closeAuthority.Account # address
    THEN "SplToken::SetAuthority(Close) authority must be for the created account"
    ELSE NoError

\* isMemo branch: a memo opens a region.
ParseMemoInstruction(m, index, regions) ==
    LET memo == DecompileMemo(m, index) IN
    IF memo.err # NoError THEN Return(index, regions, "invalid Memo::Memo")
    ELSE Continue(index, Append(regions, [EmptyRegion EXCEPT !.MemoData = memo.v[1].Data]))

\* a faulty variant: the cursor is not moved back when the next instruction
\* is not a SetAuthority, so the loop steps over it
ParseAccountHolderSkip(m, index, regions, creation) ==
    IF index = Len(m) THEN Break(index, regions)
    ELSE LET accountHolder == DecompileSetAuthority(m, index) IN
         IF accountHolder.err # NoError THEN Continue(index, regions)
         ELSE IF accountHolder.v[1].Type # AuthorityTypeAccountHolder
              THEN Return(index, regions,
                     "SplToken::SetAuthority must be of type AccountHolder following a close authority")
         ELSE IF accountHolder.v[1].Account # creation.Address
              THEN Return(index, regions,
                     "SplToken::SetAuthority(AccountHolder) must be for the created account")
         ELSE LET lastIdx == Len(regions[Len(regions)].Creations) IN
              Continue(index,
                  [regions EXCEPT ![Len(regions)].Creations[lastIdx].AccountHolder =
                                      accountHolder.v])

\* The optional SetAuthority(AccountHolder) after a bare creation, the
\* creation being the last one of `regions` and `index` the cursor after
\* the i++ that follows the close authority.
ParseAccountHolder(m, index, regions, creation) ==
    IF index = Len(m) THEN Break(index, regions)
    ELSE LET accountHolder == DecompileSetAuthority(m, index) IN
         IF accountHolder.err # NoError THEN Continue(index - 1, regions)
         ELSE IF accountHolder.v[1].Type # AuthorityTypeAccountHolder
              THEN Return(index, regions,
                     "SplToken::SetAuthority must be of type AccountHolder following a close authority")
         ELSE IF accountHolder.v[1].Account # creation.Address
              THEN Return(index, regions,
                     "SplToken::SetAuthority(AccountHolder) must be for the created account")
         ELSE LET lastIdx == Len(regions[Len(regions)].Creations) IN
              Continue(index,
                  [regions EXCEPT ![Len(regions)].Creations[lastIdx].AccountHolder =
                                      accountHolder.v])

\* isSystem branch: CreateAccount, InitializeAccount, SetAuthority(Close)
\* and the optional SetAuthority(AccountHolder).
ParseSystemInstruction(m, index, regions) ==
    LET creation == DecompileCreateAccount(m, index) IN
    IF creation.err # NoError THEN Return(index, regions, "invalid System::CreateAccount")
    ELSE IF CreateAccountError(creation.v[1]) # NoError
         THEN Return(index, regions, CreateAccountError(creation.v[1]))
    ELSE IF index + 1 = Len(m)
         THEN Return(index + 1, regions, "missing SplToken::InitializeAccount instruction")
    ELSE LET initialize == DecompileInitializeAccount(m, index + 1) IN
    IF initialize.err # NoError
         THEN Return(index + 1, regions, "invalid SplToken::InitializeAccount")
    ELSE IF InitializeError(creation.v[1], initialize.v[1]) # NoError
         THEN Return(index + 1, regions, InitializeError(creation.v[1], initialize.v[1]))
    ELSE IF index + 2 = Len(m)
         THEN Return(index + 2, regions, "missing SplToken::SetAuthority(Close) instruction")
    ELSE LET closeAuthority == DecompileSetAuthority(m, index + 2) IN
    IF closeAuthority.err # NoError
         THEN Return(index + 2, regions, "invalid SplToken::SetAuthority")
    ELSE IF CloseAuthorityError(closeAuthority.v[1], creation.v[1].Address) # NoError
         THEN Return(index + 2, regions,
                CloseAuthorityError(closeAuthority.v[1], creation.v[1].Address))
    ELSE ParseAccountHolder(
             m, index + 3,
             AppendCreation(regions,
                 Creation(creation.v, initialize.v, None, closeAuthority.v, None)),
             creation.v[1])

\* isSPLAssoc branch: CreateAssociatedAccount and SetAuthority(Close).
ParseAssocInstruction(m, index, regions) ==
    LET create == DecompileCreateAssociatedAccount(m, index) IN
    IF create.err # NoError
         THEN Return(index, regions, "invalid SplAssociatedToken::CreateAssociatedAccount")
    ELSE IF index + 1 = Len(m)
         THEN Return(index + 1, regions, "missing SplToken::SetAuthority(Close) instruction")
    ELSE LET closeAuthority == DecompileSetAuthority(m, index + 1) IN
    IF closeAuthority.err # NoError
         THEN Return(index + 1, regions, "invalid SplToken::SetAuthority")
    ELSE IF CloseAuthorityError(closeAuthority.v[1], create.v[1].Address) # NoError
         THEN Return(index + 1, regions,
                CloseAuthorityError(closeAuthority.v[1], create.v[1].Address))
    ELSE Continue(index + 1,
             AppendCreation(regions, Creation(None, None, create.v, closeAuthority.v, None)))

\* a faulty branch: a token instruction of another command is skipped
ParseTokenInstructionLax(m, index, regions) ==
    IF GetCommand(m, index) = commandTransfer
    THEN IF DecompileTransferAccount(m, index).err # NoError
         THEN Return(index, regions, "invalid SplToken::Transfer")
         ELSE IF DecompileTransferAccount(m, index).v[1].Owner = AccountAt(0)
         THEN Return(index, regions, "cannot transfer from a subsidizer owned account")
         ELSE Continue(index,
                       AppendTransfer(regions, DecompileTransferAccount(m, index).v[1]))
    ELSE IF GetCommand(m, index) = commandCloseAccount
    THEN IF DecompileCloseAccount(m, index).err # NoError
         THEN Return(index, regions, "invalid SplToken::CloseAccount")
         ELSE Continue(index, AppendClosure(regions, DecompileCloseAccount(m, index).v[1]))
    ELSE Continue(index, regions)

\* The isSPL branch without the subsidizer-ownership check of the transfer.
ParseTokenInstructionAnyOwner(m, index, regions) ==
    IF GetCommand(m, index) = commandTransfer
    THEN IF DecompileTransferAccount(m, index).err # NoError
         THEN Return(index, regions, "invalid SplToken::Transfer")
         ELSE Continue(index,
                       AppendTransfer(regions, DecompileTransferAccount(m, index).v[1]))
    ELSE IF GetCommand(m, index) = commandCloseAccount
    THEN IF DecompileCloseAccount(m, index).err # NoError
         THEN Return(index, regions, "invalid SplToken::CloseAccount")
         ELSE Continue(index, AppendClosure(regions, DecompileCloseAccount(m, index).v[1]))
    ELSE Return(index, regions, "unsupported instruction")

\* isSPL branch: a transfer or a closure; nothing else.
ParseTokenInstruction(m, index, regions) ==
    LET cmd == GetCommand(m, index) IN
    IF cmd = commandTransfer
    THEN LET transfer == DecompileTransferAccount(m, index) IN
         IF transfer.err # NoError THEN Return(index, regions, "invalid SplToken::Transfer")
         ELSE IF transfer.v[1].Owner = AccountAt(0)
              THEN Return(index, regions, "cannot transfer from a subsidizer owned account")
         ELSE Continue(index, AppendTransfer(regions, transfer.v[1]))
    ELSE IF cmd = commandCloseAccount
    THEN LET closure == DecompileCloseAccount(m, index) IN
         IF closure.err # NoError THEN Return(index, regions, "invalid SplToken::CloseAccount")
         ELSE Continue(index, AppendClosure(regions, closure.v[1]))
    ELSE Return(index, regions, "unsupported instruction")

\* The body of the instruction loop at cursor `index`.
LoopBody(m, index, regions) ==
    IF isMemo(m, index) THEN ParseMemoInstruction(m, index, regions)
    ELSE IF isSystem(m, index) THEN ParseSystemInstruction(m, index, regions)
    ELSE IF isSPLAssoc(m, index) THEN ParseAssocInstruction(m, index, regions)
    ELSE IF isSPL(m, index) THEN ParseTokenInstruction(m, index, regions)
    ELSE Return(index, regions, "invalid instruction type")

(***************************************************************************)
(* The post-pass over the regions.                                         *)
(***************************************************************************)
ErrMixed == "cannot mix earns with P2P/spends"
ErrRefCount == "invoice list does not match to exactly one region"
ErrInvoiceCount == "invoice count does not match transfer count"
ErrAppIndex == "multiple app indexes"
ErrAppID == "multiple app ids"
ErrNewAuthority == "SplToken::SetAuthority has incorrect new authority"

\* ilHash: the zero value without an invoice list
InvoiceListHash(invoiceList) ==
    IF invoiceList = None THEN [j \in 1..Sum224Size |-> 0]
    ELSE Sum224(Marshal(invoiceList[1]))

\* a faulty check: the funder of a bare creation is not compared
CreationErrorLax(c) ==
    IF c.CreateAssoc # None
    THEN IF c.CreateAssoc[1].Subsidizer # c.CloseAuthority[1].NewAuthority
         THEN ErrNewAuthority ELSE NoError
    ELSE IF c.Create # None THEN NoError
    ELSE "create without create instruction"

\* "Validate CloseAuthority matches", for one creation
CreationError(c) ==
    LET closeAuth == c.CloseAuthority[1].NewAuthority IN
    IF c.CreateAssoc # None
    THEN IF c.CreateAssoc[1].Subsidizer # closeAuth THEN ErrNewAuthority ELSE NoError
    ELSE IF c.Create # None
    THEN IF c.Create[1].Funder # closeAuth THEN ErrNewAuthority ELSE NoError
    ELSE "create without create instruction"

\* the error of the first creation that has one
CreationsError(creations) ==
    LET bad == {c \in 1..Len(creations) : CreationError(creations[c]) # NoError} IN
    IF bad = {} THEN NoError
    ELSE CreationError(creations[CHOOSE c \in bad : \A d \in bad : c <= d])

\* parsed.AppIndex > 0 && m.AppIndex() != parsed.AppIndex
AppIndexConflict(appIndex, m) == appIndex > 0 /\ MemoAppIndex(m) # appIndex

\* a faulty comparison: the 29th byte is not looked at
ReferencesInvoiceListLax(fk, ilHash) == SubSeq(fk, 1, Sum224Size) = ilHash

\* whether a memo's foreign key references the invoice list of hash ilHash
ReferencesInvoiceList(fk, ilHash) ==
    ~(SubSeq(fk, 1, Sum224Size) # ilHash \/ fk[ForeignKeySize] # 0)

\* a faulty comparison: the counts are never told apart
InvoiceCountMismatchLax(invoices, transfers) == FALSE

\* len(il.Invoices) != len(parsed.Regions[r].Transfers)
InvoiceCountMismatch(invoices, transfers) == Len(invoices) # Len(transfers)

Flags(refs, earn, spend, p2p) ==
    [refCount |-> refs, hasEarn |-> earn, hasSpend |-> spend, hasP2P |-> p2p]

\* The outcome of one iteration of the loop over the regions: the Tx, the
\* counters and the error returned (if any).
Out(p, st, e) == [parsed |-> p, st |-> st, err |-> e]

\* a faulty text-memo step: the first app id is kept and a different one
\* is let through
ValidateTextMemoLax(p, st, a) ==
    IF a.ok /\ p.AppID = <<>> THEN Out([p EXCEPT !.AppID = a.appID], st, NoError)
    ELSE Out(p, st, NoError)

\* the memo is not an agora memo: an app id of a text memo, if there is one
ValidateTextMemo(p, st, a) ==
    IF a.ok /\ p.AppID = <<>> THEN Out([p EXCEPT !.AppID = a.appID], st, NoError)
    ELSE IF a.ok /\ p.AppID # a.appID THEN Out(p, st, ErrAppID)
    ELSE Out(p, st, NoError)

\* the switch on m.TransactionType()
SetTypeFlags(st, t) ==
    [st EXCEPT !.hasEarn = @ \/ t = TransactionTypeEarn,
               !.hasSpend = @ \/ t = TransactionTypeSpend,
               !.hasP2P = @ \/ t = TransactionTypeP2P]

\* the invoice list against the foreign key fk of the region's memo
ValidateInvoices(p, st, fk, invoiceList, transfers) ==
    IF invoiceList = None THEN Out(p, st, NoError)
    ELSE IF ~ReferencesInvoiceList(fk, InvoiceListHash(invoiceList))
    THEN Out(p, st, NoError)
    ELSE IF InvoiceCountMismatch(invoiceList[1], transfers)
    THEN Out(p, [st EXCEPT !.refCount = @ + 1], ErrInvoiceCount)
    ELSE Out(p, [st EXCEPT !.refCount = @ + 1], NoError)

\* the region rr has the agora memo m
ValidateMemo(p, rr, st, m, invoiceList) ==
    IF AppIndexConflict(p.AppIndex, m)
    THEN Out([p EXCEPT !.Regions[rr + 1].Memo = Some(m)],
             SetTypeFlags(st, MemoTransactionType(m)), ErrAppIndex)
    ELSE ValidateInvoices(
             [p EXCEPT !.Regions[rr + 1].Memo = Some(m),
                       !.AppIndex = IF @ = 0 THEN MemoAppIndex(m) ELSE @],
             SetTypeFlags(st, MemoTransactionType(m)),
             MemoForeignKey(m), invoiceList, p.Regions[rr + 1].Transfers)

\* "Validate / extract memos", mm being the result of MemoFromBase64String
ExtractMemo(p, rr, st, mm, invoiceList) ==
    IF mm.err # NoError
    THEN ValidateTextMemo(p, st, AppIDFromTextMemo(p.Regions[rr + 1].MemoData))
    ELSE ValidateMemo(p, rr, st, mm.v[1], invoiceList)

\* One iteration of "for r := range parsed.Regions" on region rr.
ValidateRegionBody(p, rr, invoiceList, st) ==
    IF CreationsError(p.Regions[rr + 1].Creations) # NoError
    THEN Out(p, st, CreationsError(p.Regions[rr + 1].Creations))
    ELSE IF Len(p.Regions[rr + 1].MemoData) = 0 THEN Out(p, st, NoError)
    ELSE ExtractMemo(p, rr, st,
                     MemoFromBase64String(p.Regions[rr + 1].MemoData, FALSE),
                     invoiceList)

\* a faulty end: the transaction types are not looked at
FinishErrorLax(invoiceList, st) ==
    IF invoiceList # None /\ st.refCount # 1 THEN ErrRefCount ELSE NoError

\* The two checks after the post-pass.
FinishError(invoiceList, st) ==
    IF st.hasEarn /\ (st.hasSpend \/ st.hasP2P) THEN ErrMixed
    ELSE IF invoiceList # None /\ st.refCount # 1 THEN ErrRefCount
    ELSE NoError

(***************************************************************************)
(* The actions of a call.                                                  *)
(***************************************************************************)
input == <<instructions, signatures, il>>
counters == <<refCount, hasEarn, hasSpend, hasP2P>>

\* a faulty entry: the signature slots are not looked at
PreconditionErrorLax(m, sigs) ==
    IF Len(m) = 0 THEN "no instructions" ELSE NoError

\* the checks on entry; sigs is len(tx.Signatures)
PreconditionError(m, sigs) ==
    IF Len(m) = 0 THEN "no instructions"
    ELSE IF sigs = 0 THEN "no allocated signatures"
    ELSE NoError

\* the two preconditions, then parsed.Regions = make([]Region, 1)
Start ==
    /\ pc = "start"
    /\ err' = PreconditionError(instructions, signatures)
    /\ IF PreconditionError(instructions, signatures) # NoError
       THEN /\ pc' = "done"
            /\ parsed' = parsed
       ELSE /\ pc' = "loop"
            /\ parsed' = [parsed EXCEPT !.Regions = <<EmptyRegion>>]
    /\ UNCHANGED <<input, i, r, counters, codec>>

\* one iteration of the instruction loop, with the i++ and the loop test
\* that follow it
ParseInstruction ==
    /\ pc = "loop"
    /\ i < Len(instructions)
    /\ \E out \in {LoopBody(instructions, i, parsed.Regions)} :
       /\ parsed' = [parsed EXCEPT !.Regions = out.Regions]
       /\ err' = out.err
       /\ IF out.err # NoError
          THEN pc' = "done" /\ i' = out.i
          ELSE IF out.brk
          THEN pc' = "validate" /\ i' = out.i
          ELSE /\ i' = out.i + 1
               /\ pc' = IF out.i + 1 < Len(instructions) THEN "loop" ELSE "validate"
    /\ UNCHANGED <<input, r, counters, codec>>

\* one iteration of the loop over the regions
ValidateRegion ==
    /\ pc = "validate"
    /\ r < Len(parsed.Regions)
    /\ \E out \in {ValidateRegionBody(parsed, r, il,
                       Flags(refCount, hasEarn, hasSpend, hasP2P))} :
       /\ parsed' = out.parsed
       /\ refCount' = out.st.refCount
       /\ hasEarn' = out.st.hasEarn
       /\ hasSpend' = out.st.hasSpend
       /\ hasP2P' = out.st.hasP2P
       /\ err' = out.err
       /\ IF out.err # NoError
          THEN pc' = "done" /\ r' = r
          ELSE pc' = "validate" /\ r' = r + 1
    /\ UNCHANGED <<input, i, codec>>

\* the checks after the loop over the regions, and the return
Finish ==
    /\ pc = "validate"
    /\ r = Len(parsed.Regions)
    /\ err' = FinishError(il, Flags(refCount, hasEarn, hasSpend, hasP2P))
    /\ pc' = "done"
    /\ UNCHANGED <<input, i, parsed, r, counters, codec>>

Next == Start \/ ParseInstruction \/ ValidateRegion \/ Finish

(***************************************************************************)
(* The explored inputs: compiled instructions as the builders make them.   *)
(***************************************************************************)
CreateA == CompileInstruction(
    CreateAccount(Subsidizer, AddrA, TokenProgramKey, AccountSize, AccountSize))
CreateByWallet == CompileInstruction(
    CreateAccount(Wallet, AddrA, TokenProgramKey, AccountSize, AccountSize))
CreateWrongOwner == CompileInstruction(
    CreateAccount(Subsidizer, AddrA, Wallet, AccountSize, AccountSize))
CreateWrongSize == CompileInstruction(
    CreateAccount(Subsidizer, AddrA, TokenProgramKey, AccountSize, 10))
Nonce == CompileInstruction(AdvanceNonce(Wallet, Mint))
InitializeA == CompileInstruction(InitializeAccount(AddrA, Mint, Wallet))
InitializeB == CompileInstruction(InitializeAccount(AddrB, Mint, Wallet))
CloseAuthorityA == CompileInstruction(
    SetAuthority(AddrA, Wallet, Subsidizer, AuthorityTypeCloseAccount))
CloseAuthorityB == CompileInstruction(
    SetAuthority(AddrB, Wallet, Subsidizer, AuthorityTypeCloseAccount))
CloseAuthorityWallet == CompileInstruction(
    SetAuthority(AddrA, Wallet, Wallet, AuthorityTypeCloseAccount))
CloseAuthorityNone == CompileInstruction(
    SetAuthority(AddrA, Wallet, <<>>, AuthorityTypeCloseAccount))
HolderA == CompileInstruction(
    SetAuthority(AddrA, Wallet, Wallet, AuthorityTypeAccountHolder))
HolderB == CompileInstruction(
    SetAuthority(AddrB, Wallet, Wallet, AuthorityTypeAccountHolder))
AssocA == CompileInstruction(CreateAssociatedTokenAccount(Subsidizer, Wallet, Mint))
Transfer10 == CompileInstruction(Transfer(AddrA, AddrB, Wallet, 10))
Transfer20 == CompileInstruction(Transfer(AddrB, AddrA, Mint, 20))
TransferBySubsidizer == CompileInstruction(Transfer(AddrA, AddrB, Subsidizer, 10))
ClosureA == CompileInstruction(CloseAccount(AddrA, Subsidizer, Wallet))
\* a token instruction of a command the parser does not support
MintTo10 == CompileInstruction(
    NewInstruction(TokenProgramKey, <<commandMintTo>> \o PutUint(8, 10),
                   <<Mint, AddrA, Wallet>>))
Foreign == CompileInstruction(NewInstruction(OtherProgramKey, <<>>, <<>>))

\* the invoice lists: one invoice, two invoices
Invoices1 == <<<<1>>>>
Invoices2 == <<<<1>>, <<1>>>>

\* the foreign key that references an invoice list, as the callers build it:
\* the hash and a zero 29th byte; `last` is that 29th byte
ForeignKeyOf(invoices, last) == Sum224(Marshal(invoices)) \o <<last>>

AgoraMemo(t, appIndex, fk) ==
    CompileInstruction(MemoInstruction(Base64EncodeToString(NewMemo(1, t, appIndex, fk))))
TextMemo(chars) == CompileInstruction(MemoInstruction(Bytes(chars)))

TextAbc == TextMemo(<<"1", "-", "a", "b", "c">>)
TextXyz == TextMemo(<<"1", "-", "x", "y", "z", "-", "a">>)
\* the app id of TextAbc in another text, and texts that yield no app id:
\* a version that is not "1", an app id that is too short
TextAbcTail == TextMemo(<<"1", "-", "a", "b", "c", "-", "z">>)
TextVersion2 == TextMemo(<<"2", "-", "a", "b", "c">>)
TextShort == TextMemo(<<"1", "-", "x", "y">>)

\* typed memos: earns and spends that reference Invoices1, P2P memos with an
\* empty foreign key; app indexes none (0), 1 and 2
TypedMemos ==
    {AgoraMemo(TransactionTypeEarn, a, ForeignKeyOf(Invoices1, 0)) : a \in {0, 1, 2}}
    \cup {AgoraMemo(TransactionTypeSpend, a, ForeignKeyOf(Invoices1, 0)) : a \in {0, 1, 2}}
    \cup {AgoraMemo(TransactionTypeP2P, a, <<>>) : a \in {0, 1, 2}}

\* memos of one type and app index: referencing Invoices1, referencing
\* Invoices2, with a 29th byte of 1, and of the unknown type (no agora memo)
InvoiceMemos ==
    {AgoraMemo(TransactionTypeSpend, 1, ForeignKeyOf(Invoices1, 0)),
     AgoraMemo(TransactionTypeSpend, 1, ForeignKeyOf(Invoices2, 0)),
     AgoraMemo(TransactionTypeSpend, 1, ForeignKeyOf(Invoices1, 1)),
     AgoraMemo(TransactionTypeUnknown, 1, ForeignKeyOf(Invoices1, 0))}

\* all sequences of at most n elements of S
SeqsUpTo(S, n) == UNION {[1..k -> S] : k \in 0..n}

\* no etcd-backed config has been created
NoConfig == server = <<>> /\ cfg = <<>> /\ watcher = <<>> /\ observed = <<>>

\* no task processor is running
NoCallers == callers = <<>> /\ shutdownOnce = "new"
NoProcessor ==
    conf = <<>> /\ shutdownCh = FALSE /\ messages = <<>> /\ workers = <<>> /\ NoCallers

\* no library call is under way
NoCall == op = "" /\ args = <<>> /\ ret = <<>> /\ NoProcessor /\ NoConfig

InitWith(txs, sigs, ils) ==
    /\ instructions \in txs
    /\ signatures \in sigs
    /\ il \in ils
    /\ pc = "start"
    /\ i = 0
    /\ parsed = EmptyTx
    /\ err = NoError
    /\ r = 0
    /\ refCount = 0
    /\ hasEarn = FALSE
    /\ hasSpend = FALSE
    /\ hasP2P = FALSE
    /\ NoCall

\* every kind of instruction, short transactions
Alphabet ==
    {CreateA, CreateWrongOwner, CreateWrongSize, Nonce, InitializeA, CloseAuthorityA,
     HolderA, AssocA, Transfer10, TransferBySubsidizer, ClosureA, MintTo10, Foreign,
     TextAbc}

Init == InitWith(SeqsUpTo(Alphabet, MaxInstructions), {0, 1}, {None})

Spec == Init /\ [][Next]_vars

\* creation sequences
CreateAlphabet ==
    {CreateA, CreateByWallet, InitializeA, InitializeB, CloseAuthorityA, CloseAuthorityB,
     CloseAuthorityWallet, CloseAuthorityNone, HolderA, HolderB, AssocA, Transfer10,
     ClosureA, MintTo10}

InitCreate == InitWith(SeqsUpTo(CreateAlphabet, MaxCreateLen), {1}, {None})

SpecCreate == InitCreate /\ [][Next]_vars

\* regions and memos
MemoAlphabet ==
    TypedMemos \cup {TextAbc, Transfer10, Transfer20, ClosureA, AssocA, CloseAuthorityA}

InitMemo == InitWith(SeqsUpTo(MemoAlphabet, MaxMemoLen), {1}, {None, Some(Invoices1)})

SpecMemo == InitMemo /\ [][Next]_vars

\* text memos: two app ids, texts without one, an earn memo that references
\* Invoices1, a transfer
TextAlphabet ==
    {TextAbc, TextXyz, TextAbcTail, TextVersion2, TextShort,
     AgoraMemo(TransactionTypeEarn, 1, ForeignKeyOf(Invoices1, 0)), Transfer10}

InitText == InitWith(SeqsUpTo(TextAlphabet, MaxMemoLen), {1}, {None, Some(Invoices1)})

SpecText == InitText /\ [][Next]_vars

\* invoice lists
InvoiceAlphabet == InvoiceMemos \cup {TextAbc, Transfer10}

InitInvoice ==
    InitWith(SeqsUpTo(InvoiceAlphabet, MaxInvoiceLen), {1},
             {None, Some(Invoices1), Some(Invoices2)})

SpecInvoice == InitInvoice /\ [][Next]_vars

(***************************************************************************)
(* Properties.  They are stated on the instructions given to the call and  *)
(* on what the call returned.                                              *)
(***************************************************************************)
Done == pc = "done"
Succeeded == pc = "done" /\ err = NoError

\* the instruction indexes of a message, 0-based
Indexes(m) == 0..(Len(m) - 1)

\* the elements of a set of numbers in ascending order
RECURSIVE Ascending(_)
Ascending(S) ==
    IF S = {} THEN <<>>
    ELSE <<CHOOSE x \in S : \A y \in S : x <= y>>
         \o Ascending(S \ {CHOOSE x \in S : \A y \in S : x <= y})

\* the regions' creations, in order
RECURSIVE AllCreations(_)
AllCreations(regions) ==
    IF regions = <<>> THEN <<>>
    ELSE Head(regions).Creations \o AllCreations(Tail(regions))

IsCreateAccount(m, k) == DecompileCreateAccount(m, k).err = NoError
IsCreateAssoc(m, k) == DecompileCreateAssociatedAccount(m, k).err = NoError
IsInitializeOf(m, k, address) ==
    /\ k < Len(m)
    /\ DecompileInitializeAccount(m, k).err = NoError
    /\ DecompileInitializeAccount(m, k).v[1].Account = address
IsCloseAuthorityOf(m, k, address) ==
    /\ k < Len(m)
    /\ DecompileSetAuthority(m, k).err = NoError
    /\ DecompileSetAuthority(m, k).v[1].Type = AuthorityTypeCloseAccount
    /\ DecompileSetAuthority(m, k).v[1].Account = address

\* C1: in every successful result each bare creation is a complete
\* sequence: a System CreateAccount at instruction k is followed at k+1 by
\* an InitializeAccount of the created address and at k+2 by a
\* SetAuthority of type CloseAccount on the created address; a missing
\* follow-up, one of another kind or one for another address is an error.
C1_BareCreationComplete ==
    Succeeded =>
        \A k \in Indexes(instructions) :
            IsCreateAccount(instructions, k) =>
                /\ IsInitializeOf(instructions, k + 1,
                       DecompileCreateAccount(instructions, k).v[1].Address)
                /\ IsCloseAuthorityOf(instructions, k + 2,
                       DecompileCreateAccount(instructions, k).v[1].Address)

\* a bare creation was accepted
C1_Witness ==
    /\ Succeeded
    /\ \E k \in Indexes(instructions) : IsCreateAccount(instructions, k)
    /\ \E c \in 1..Len(AllCreations(parsed.Regions)) :
           AllCreations(parsed.Regions)[c].Initialize # None

\* C2: a CreateAssociatedAccount at instruction k is accepted only if
\* instruction k+1 exists and is a SetAuthority of type CloseAccount on the
\* created associated address; otherwise the call returns an error.
C2_AssocCreationComplete ==
    Succeeded =>
        \A k \in Indexes(instructions) :
            IsCreateAssoc(instructions, k) =>
                IsCloseAuthorityOf(instructions, k + 1,
                    DecompileCreateAssociatedAccount(instructions, k).v[1].Address)

\* an associated creation was accepted
C2_Witness ==
    /\ Succeeded
    /\ \E k \in Indexes(instructions) : IsCreateAssoc(instructions, k)
    /\ \E c \in 1..Len(AllCreations(parsed.Regions)) :
           AllCreations(parsed.Regions)[c].CreateAssoc # None

\* where the creation sequences of a message start
CreationStarts(m) == {k \in Indexes(m) : isSystem(m, k) \/ isSPLAssoc(m, k)}

\* the places of the SetAuthority instructions of the creation that starts
\* at s: the close authority, and for a bare creation the account holder
SetAuthoritySlots(m, s) == IF isSPLAssoc(m, s) THEN {s + 1} ELSE {s + 2, s + 3}

IsSetAuthority(m, k) == isSPL(m, k) /\ GetCommand(m, k) = commandSetAuthority

\* instruction k is a follow-up of a creation sequence
InCreationSequence(m, k) ==
    \E s \in CreationStarts(m) :
        \/ k = s + 1
        \/ ~isSPLAssoc(m, s) /\ k = s + 2
        \/ ~isSPLAssoc(m, s) /\ k = s + 3 /\ IsSetAuthority(m, k)

\* the SetAuthority instructions the creations hold
HeldSetAuthorities(creations) ==
    Cardinality({c \in 1..Len(creations) : creations[c].AccountHolder # None})
    + Len(creations)

\* C3: a token instruction outside a creation sequence is accepted only if
\* its command is Transfer or CloseAccount; so in every successful result
\* each SetAuthority instruction belongs to exactly one creation.
C3_TokenOutsideCreation ==
    Succeeded =>
        /\ \A k \in Indexes(instructions) :
               isSPL(instructions, k) /\ ~InCreationSequence(instructions, k) =>
                   GetCommand(instructions, k) \in {commandTransfer, commandCloseAccount}
        /\ \A k \in Indexes(instructions) :
               IsSetAuthority(instructions, k) =>
                   Cardinality({s \in CreationStarts(instructions) :
                                  k \in SetAuthoritySlots(instructions, s)}) = 1
        /\ Cardinality({k \in Indexes(instructions) : IsSetAuthority(instructions, k)})
               = HeldSetAuthorities(AllCreations(parsed.Regions))

\* a bare creation with its close authority and its account holder was
\* accepted
C3_Witness ==
    /\ Succeeded
    /\ \E c \in 1..Len(AllCreations(parsed.Regions)) :
           AllCreations(parsed.Regions)[c].AccountHolder # None
    /\ Cardinality({k \in Indexes(instructions) : IsSetAuthority(instructions, k)}) = 2

KnownPrograms ==
    {MemoProgramKey, SystemProgramKey, AssociatedTokenAccountProgramKey, TokenProgramKey}

\* C4: the call succeeds only if every instruction's program is the memo,
\* system, associated-token or token program and every system instruction
\* is a CreateAccount whose Owner is the token program and whose Size is
\* the token account size, 165.
C4_ProgramsAndCreateAccount ==
    Succeeded =>
        \A k \in Indexes(instructions) :
            /\ AccountAt(InstructionAt(instructions, k).ProgramIndex) \in KnownPrograms
            /\ isSystem(instructions, k) =>
                   /\ IsCreateAccount(instructions, k)
                   /\ DecompileCreateAccount(instructions, k).v[1].Owner = TokenProgramKey
                   /\ DecompileCreateAccount(instructions, k).v[1].Size = 165

\* a transaction with a system instruction was accepted
C4_Witness ==
    /\ Succeeded
    /\ \E k \in Indexes(instructions) : isSystem(instructions, k)
    /\ signatures = 1

\* the number of memo instructions before instruction k
MemosBefore(m, k) == Cardinality({j \in 0..(k - 1) : isMemo(m, j)})

\* the indexes of the memo instructions, in order
MemoIndexes(m) == Ascending({k \in Indexes(m) : isMemo(m, k)})

\* the transfer instructions that follow exactly j memo instructions
TransferIndexes(m, j) ==
    Ascending({k \in Indexes(m) :
                 /\ isSPL(m, k)
                 /\ ~InCreationSequence(m, k)
                 /\ GetCommand(m, k) = commandTransfer
                 /\ MemosBefore(m, k) = j})

ClosureIndexes(m, j) ==
    Ascending({k \in Indexes(m) :
                 /\ isSPL(m, k)
                 /\ ~InCreationSequence(m, k)
                 /\ GetCommand(m, k) = commandCloseAccount
                 /\ MemosBefore(m, k) = j})

CreationIndexes(m, j) == Ascending({k \in CreationStarts(m) : MemosBefore(m, k) = j})

\* the creation that the sequence starting at s describes
CreationAt(m, s) ==
    IF isSPLAssoc(m, s)
    THEN [Create |-> None, Initialize |-> None,
          CreateAssoc |-> DecompileCreateAssociatedAccount(m, s).v,
          CloseAuthority |-> DecompileSetAuthority(m, s + 1).v,
          AccountHolder |-> None]
    ELSE [Create |-> DecompileCreateAccount(m, s).v,
          Initialize |-> DecompileInitializeAccount(m, s + 1).v,
          CreateAssoc |-> None,
          CloseAuthority |-> DecompileSetAuthority(m, s + 2).v,
          AccountHolder |-> IF s + 3 < Len(m) /\ IsSetAuthority(m, s + 3)
                            THEN DecompileSetAuthority(m, s + 3).v ELSE None]

\* region j of the result holds what follows exactly j memo instructions
RegionHolds(m, regions, j) ==
    /\ regions[j + 1].Transfers =
           [n \in 1..Len(TransferIndexes(m, j)) |->
               DecompileTransferAccount(m, TransferIndexes(m, j)[n]).v[1]]
    /\ regions[j + 1].Closures =
           [n \in 1..Len(ClosureIndexes(m, j)) |->
               DecompileCloseAccount(m, ClosureIndexes(m, j)[n]).v[1]]
    /\ regions[j + 1].Creations =
           [n \in 1..Len(CreationIndexes(m, j)) |-> CreationAt(m, CreationIndexes(m, j)[n])]

\* C5: on success there is one region more than there are memo
\* instructions; region 0 has empty MemoData; region k >= 1 has the data of
\* the k-th memo instruction; each creation, transfer and closure is
\* recorded, in instruction order, in the region whose index is the number
\* of memo instructions before it.
C5_Regions ==
    Succeeded =>
        /\ Len(parsed.Regions) = 1 + Len(MemoIndexes(instructions))
        /\ parsed.Regions[1].MemoData = <<>>
        /\ \A k \in 1..Len(MemoIndexes(instructions)) :
               parsed.Regions[k + 1].MemoData =
                   InstructionAt(instructions, MemoIndexes(instructions)[k]).Data
        /\ \A j \in 0..Len(MemoIndexes(instructions)) :
               RegionHolds(instructions, parsed.Regions, j)

\* a transaction with a transfer before and a transfer after its memo was
\* accepted
C5_Witness ==
    /\ Succeeded
    /\ Len(parsed.Regions) >= 2
    /\ parsed.Regions[1].Transfers # <<>>
    /\ parsed.Regions[2].Transfers # <<>>
    /\ parsed.Regions[2].MemoData # <<>>

\* the memo instructions whose data is an agora memo
AgoraMemoIndexes(m) ==
    {k \in Indexes(m) :
        isMemo(m, k) /\ MemoFromBase64String(InstructionAt(m, k).Data, FALSE).err = NoError}

AgoraMemoAt(m, k) == MemoFromBase64String(InstructionAt(m, k).Data, FALSE).v[1]

\* two agora memos carry different non-zero app indexes
DifferentAppIndexes(m) ==
    \E j, k \in AgoraMemoIndexes(m) :
        /\ MemoAppIndex(AgoraMemoAt(m, j)) # 0
        /\ MemoAppIndex(AgoraMemoAt(m, k)) # 0
        /\ MemoAppIndex(AgoraMemoAt(m, j)) # MemoAppIndex(AgoraMemoAt(m, k))

\* C6: a memo whose app index is 0 counts as none and never causes a
\* conflict, before or after a memo with a non-zero app index: the
\* conflicting-app-index error is returned only when two agora memos carry
\* different non-zero app indexes.
C6_ZeroNeverConflicts ==
    Done /\ err = ErrAppIndex => DifferentAppIndexes(instructions)

\* one agora memo is an earn and another a spend or a P2P
Mixed(m) ==
    \E j, k \in AgoraMemoIndexes(m) :
        /\ MemoTransactionType(AgoraMemoAt(m, j)) = TransactionTypeEarn
        /\ MemoTransactionType(AgoraMemoAt(m, k)) \in
               {TransactionTypeSpend, TransactionTypeP2P}

\* the loop over the regions ran to its end
PostPassCompleted == Done /\ Len(parsed.Regions) > 0 /\ r = Len(parsed.Regions)

\* every instruction is a memo instruction: the instruction loop accepts
\* the transaction
OnlyMemos(m) == \A k \in Indexes(m) : isMemo(m, k)

\* C7 as stated, on transactions of memo instructions: the
\* mixed-transaction-types error is returned whenever an earn memo meets a
\* spend or P2P memo.
C7_MixedAlwaysReported ==
    Done /\ OnlyMemos(instructions) /\ Mixed(instructions) => err = ErrMixed

\* C7: a transaction in which an earn memo meets a spend or P2P memo is
\* never accepted; the error is the mixed-transaction-types error when the
\* instruction loop and the loop over the regions returned no error before;
\* that error is returned for no other transaction, so not for one that
\* mixes only spends and P2Ps.
C7_MixedRejected ==
    /\ Done /\ Mixed(instructions) => err # NoError
    /\ PostPassCompleted /\ Mixed(instructions) => err = ErrMixed
    /\ Done /\ err = ErrMixed => Mixed(instructions)

\* the error was returned for a transaction that came with an invoice list
C7_Witness ==
    /\ Done
    /\ err = ErrMixed
    /\ il # None
    /\ Mixed(instructions)

\* the agora memo of instruction k references the invoice list: the first
\* 28 bytes of its foreign key are the SHA-224 of the serialized list and
\* the 29th byte is 0
MemoMatches(m, k, invoices) ==
    /\ SubSeq(MemoForeignKey(AgoraMemoAt(m, k)), 1, 28) = Sum224(Marshal(invoices))
    /\ MemoForeignKey(AgoraMemoAt(m, k))[29] = 0

\* the memo instructions that open a region matching the invoice list
MatchingMemos(m, invoices) ==
    {k \in AgoraMemoIndexes(m) : MemoMatches(m, k, invoices)}

\* C8: with an invoice list the call succeeds only if exactly one region
\* has an agora memo that references the list; without an invoice list no
\* invoice-related error is returned.
C8_ExactlyOneMatch ==
    /\ Succeeded /\ il # None =>
           Cardinality(MatchingMemos(instructions, il[1])) = 1
    /\ Done /\ il = None => err \notin {ErrRefCount, ErrInvoiceCount}

\* a transaction with an invoice list was accepted, another memo of it not
\* referencing the list
C8_Witness ==
    /\ Succeeded
    /\ il # None
    /\ Cardinality(AgoraMemoIndexes(instructions)) >= 2
    /\ refCount = 1

\* the number of transfers in the region that memo instruction k opens
TransfersAfter(m, k) == Len(TransferIndexes(m, MemosBefore(m, k) + 1))

\* C9: with an invoice list, a region whose memo references the list holds
\* exactly as many transfers as the list has invoices; otherwise the call
\* returns an error.
C9_InvoiceCount ==
    Succeeded /\ il # None =>
        /\ \A k \in MatchingMemos(instructions, il[1]) :
               TransfersAfter(instructions, k) = Len(il[1])
        /\ \A j \in 1..Len(parsed.Regions) :
               (/\ parsed.Regions[j].Memo # None
                /\ SubSeq(MemoForeignKey(parsed.Regions[j].Memo[1]), 1, 28)
                       = Sum224(Marshal(il[1]))
                /\ MemoForeignKey(parsed.Regions[j].Memo[1])[29] = 0)
               => Len(parsed.Regions[j].Transfers) = Len(il[1])

\* a transaction whose matched region holds the two transfers of a list of
\* two invoices was accepted
C9_Witness ==
    /\ Succeeded
    /\ il # None
    /\ Len(il[1]) = 2
    /\ \E j \in 1..Len(parsed.Regions) :
           parsed.Regions[j].Memo # None /\ Len(parsed.Regions[j].Transfers) = 2

\* who paid for a creation
Payer(c) == IF c.CreateAssoc # None THEN c.CreateAssoc[1].Subsidizer ELSE c.Create[1].Funder

\* C10: for every creation of a successful result the new authority of its
\* close authority is the account that paid for the creation: the Funder of
\* the CreateAccount, the Subsidizer of the CreateAssociatedAccount; a
\* transaction with a creation whose close authority is another key, or
\* none, is rejected.
C10_CloseAuthorityIsPayer ==
    Succeeded =>
        /\ \A c \in 1..Len(AllCreations(parsed.Regions)) :
               AllCreations(parsed.Regions)[c].CloseAuthority[1].NewAuthority
                   = Payer(AllCreations(parsed.Regions)[c])
        /\ \A s \in CreationStarts(instructions) :
               CreationAt(instructions, s).CloseAuthority[1].NewAuthority
                   = Payer(CreationAt(instructions, s))

\* a bare creation paid by an account other than the fee payer was accepted
C10_Witness ==
    /\ Succeeded
    /\ \E c \in 1..Len(AllCreations(parsed.Regions)) :
           /\ AllCreations(parsed.Regions)[c].Create # None
           /\ AllCreations(parsed.Regions)[c].Create[1].Funder # AccountAt(0)
           /\ AllCreations(parsed.Regions)[c].CloseAuthority[1].NewAuthority
                  = AllCreations(parsed.Regions)[c].Create[1].Funder

\* ---------------------------------------------------------------------------
\* C11: a transaction holding a token Transfer owned by the subsidizer
\* (Message.Accounts[0]) is rejected, and no Transfer of a successful result
\* has the subsidizer as its owner.
SubsidizerTransferIndexes ==
    {k \in Indexes(instructions) :
        /\ isSPL(instructions, k)
        /\ GetCommand(instructions, k) = commandTransfer
        /\ DecompileTransferAccount(instructions, k).err = NoError
        /\ DecompileTransferAccount(instructions, k).v[1].Owner = AccountAt(0)}

C11_NoSubsidizerTransfer ==
    /\ (Done /\ SubsidizerTransferIndexes # {}) => err # NoError
    /\ Succeeded =>
          \A n \in 1..Len(parsed.Regions) :
            \A t \in 1..Len(parsed.Regions[n].Transfers) :
                parsed.Regions[n].Transfers[t].Owner # AccountAt(0)

\* The subsidizer check itself rejected the transaction: every instruction
\* before the subsidizer-owned transfer was accepted.
C11_Witness ==
    /\ Done
    /\ err = "cannot transfer from a subsidizer owned account"
    /\ Len(instructions) >= 2
    /\ SubsidizerTransferIndexes = {Len(instructions) - 1}

\* ---------------------------------------------------------------------------
\* the app ids that the text memos among the memo data `datas` yield; a text
\* memo is memo data that is not the base64 of an agora memo
TextAppIDsOf(datas) ==
    {AppIDFromTextMemo(d).appID :
        d \in {e \in datas : /\ MemoFromBase64String(e, FALSE).err # NoError
                             /\ AppIDFromTextMemo(e).ok}}

\* of the memo instructions of a message
TextAppIDs(m) ==
    TextAppIDsOf({InstructionAt(m, k).Data : k \in {j \in Indexes(m) : isMemo(m, j)}})

\* of the first n regions
RegionAppIDs(regions, n) ==
    TextAppIDsOf({regions[k].MemoData : k \in {j \in 1..n : Len(regions[j].MemoData) > 0}})

\* C12 as stated, on transactions of memo instructions: text memos that
\* yield different app ids always end in the conflicting-app-id error.
C12_ConflictAlwaysReported ==
    Done /\ OnlyMemos(instructions) /\ Cardinality(TextAppIDs(instructions)) > 1
        => err = ErrAppID

\* C12: a transaction whose text memos yield different app ids is never
\* accepted; the conflicting-app-id error is returned for no other
\* transaction, and any other outcome was decided before the loop over the
\* regions reached a second app id; on success Tx.AppID is the one app id
\* that the text memos yield, and empty when they yield none.
C12_TextAppID ==
    /\ Done /\ Cardinality(TextAppIDs(instructions)) > 1 => err # NoError
    /\ Done /\ err = ErrAppID => Cardinality(TextAppIDs(instructions)) > 1
    /\ Done /\ err # ErrAppID => Cardinality(RegionAppIDs(parsed.Regions, r)) <= 1
    /\ Succeeded =>
          /\ RegionAppIDs(parsed.Regions, r) = TextAppIDs(instructions)
          /\ TextAppIDs(instructions) = {} => parsed.AppID = <<>>
          /\ TextAppIDs(instructions) # {} => TextAppIDs(instructions) = {parsed.AppID}

\* the conflict was reported for two text memos with a transfer between
\* them, as in the test
C12_Witness ==
    /\ Done
    /\ err = ErrAppID
    /\ Len(instructions) = 3
    /\ isMemo(instructions, 0) /\ isSPL(instructions, 1) /\ isMemo(instructions, 2)
    /\ Cardinality(TextAppIDs(instructions)) = 2

\* ---------------------------------------------------------------------------
\* C13: a message without instructions and a transaction without allocated
\* signature slots are rejected before any instruction is looked at: the
\* call ends with an error, the cursors of both loops still at 0 and the
\* result still the zero Tx.
C13_Preconditions ==
    Done /\ (Len(instructions) = 0 \/ signatures = 0) =>
        /\ err # NoError
        /\ Len(instructions) = 0 => err = "no instructions"
        /\ Len(instructions) > 0 => err = "no allocated signatures"
        /\ i = 0
        /\ r = 0
        /\ parsed = EmptyTx

\* a transaction of one well-formed transfer whose signatures were removed,
\* as in the test
C13_Witness ==
    /\ Done
    /\ signatures = 0
    /\ instructions = <<Transfer10>>
    /\ err = "no allocated signatures"

(***************************************************************************)
(* Library calls.  The builders and decompilers, the account codec and     *)
(* the memo codec are pure functions: a specification draws the arguments  *)
(* of one call and its actions apply the functions to them.                *)
(***************************************************************************)
\* ParseTransaction is not under way
NoParse ==
    /\ instructions = <<>>
    /\ signatures = 0
    /\ il = None
    /\ pc = "idle"
    /\ i = 0
    /\ parsed = EmptyTx
    /\ err = NoError
    /\ r = 0
    /\ refCount = 0
    /\ hasEarn = FALSE
    /\ hasSpend = FALSE
    /\ hasP2P = FALSE

parser == <<instructions, signatures, il, pc, i, parsed, err, r, refCount,
            hasEarn, hasSpend, hasP2P>>

\* the caller applies `name` to the drawn arguments and gets `result`
Call(name, result) ==
    /\ op = ""
    /\ op' = name
    /\ ret' = result
    /\ UNCHANGED <<args, parser, processor, etcd>>

\* solana.NewTransaction(payer, instruction).Message.Instructions
Compiled(ins) == <<CompileInstruction(ins)>>

\* keys, equal ones included; authority types, the defined ones and other
\* bytes; amounts on both sides of every byte boundary that the integers of
\* the checker hold
TokenKeys == {Subsidizer, Wallet, Mint}
AuthorityTypes == {0, 1, AuthorityTypeAccountHolder, AuthorityTypeCloseAccount, 255}
Amounts == {0, 1, 255, 256, 65535, 65536, 16777215, 16777216, 2147483647}

InitToken ==
    /\ NoParse
    /\ NoProcessor
    /\ NoConfig
    /\ op = ""
    /\ ret = <<>>
    /\ args \in [account : TokenKeys, other : TokenKeys, owner : TokenKeys,
                  authorityType : AuthorityTypes, newAuthority : {<<>>, Mint, AddrA},
                  amount : Amounts]

InitializeAccountRoundTrip ==
    Call("InitializeAccount",
         DecompileInitializeAccount(
             Compiled(InitializeAccount(args.account, args.other, args.owner)), 0))

SetAuthorityRoundTrip ==
    Call("SetAuthority",
         DecompileSetAuthority(
             Compiled(SetAuthority(args.account, args.owner, args.newAuthority,
                                   args.authorityType)), 0))

TransferRoundTrip ==
    Call("Transfer",
         DecompileTransferAccount(
             Compiled(Transfer(args.account, args.other, args.owner, args.amount)), 0))

NextToken == InitializeAccountRoundTrip \/ SetAuthorityRoundTrip \/ TransferRoundTrip

SpecToken == InitToken /\ [][NextToken]_vars

\* ---------------------------------------------------------------------------
\* C14: decompiling a compiled token instruction returns the arguments it
\* was built from: account, mint and owner of InitializeAccount; account,
\* current authority, authority type and new authority of SetAuthority (no
\* new authority stays none); source, destination, owner and amount of
\* Transfer.
C14_TokenRoundTrip ==
    /\ op = "InitializeAccount" =>
          ret = Ok([Account |-> args.account, Mint |-> args.other, Owner |-> args.owner])
    /\ op = "SetAuthority" =>
          ret = Ok([Account |-> args.account,
                    CurrentAuthority |-> args.owner,
                    Type |-> args.authorityType,
                    NewAuthority |-> args.newAuthority])
    /\ op = "Transfer" =>
          ret = Ok([Source |-> args.account,
                    Destination |-> args.other,
                    Owner |-> args.owner,
                    Amount |-> args.amount])

\* a transfer of an amount that fills more than one byte was decompiled
C14_Witness ==
    /\ op = "Transfer"
    /\ args.amount = 16777216
    /\ args.account # args.other
    /\ ret.err = NoError
    /\ ret.v[1].Amount = 16777216

(***************************************************************************)
(* DecompileSetAuthority on instructions that no builder made: the program,*)
(* the number of accounts, the command byte, the presence flag and the     *)
(* length of the data are drawn freely.                                    *)
(***************************************************************************)
\* an instruction as it sits in a message: the first n of three account
\* indexes
RawInstruction(program, n, data) ==
    [ProgramIndex |-> IndexOf(program),
     Accounts |-> SubSeq(<<IndexOf(Wallet), IndexOf(Mint), IndexOf(AddrA)>>, 1, n),
     Data |-> data]

\* the first len bytes of command, authority type, flag and a key
SetAuthorityData(command, flag, len) ==
    SubSeq(<<command, AuthorityTypeCloseAccount, flag>> \o AddrB \o <<0>>, 1, len)

commandApprove == 4

InitSetAuthority ==
    /\ NoParse
    /\ NoProcessor
    /\ NoConfig
    /\ op = ""
    /\ ret = <<>>
    /\ \E program \in {TokenProgramKey, SystemProgramKey},
          n \in {1, 2, 3},
          command \in {commandSetAuthority, commandApprove},
          flag \in {0, 1, 2, 255},
          len \in {0, 2, 3, 4, 34, 35, 36} :
            args = [program |-> program, flag |-> flag,
                    ins |-> RawInstruction(program, n,
                                           SetAuthorityData(command, flag, len))]

DecompileSetAuthorityCall ==
    Call("DecompileSetAuthority", DecompileSetAuthority(<<args.ins>>, 0))

NextSetAuthority == DecompileSetAuthorityCall

SpecSetAuthority == InitSetAuthority /\ [][NextSetAuthority]_vars

\* ---------------------------------------------------------------------------
\* C15: DecompileSetAuthority accepts an instruction only if its data is
\* 3 bytes long with presence flag 0 or 35 bytes long with presence flag 1,
\* and the new authority of an accepted instruction is present exactly when
\* the flag is 1.
C15_LengthMatchesFlag ==
    op = "DecompileSetAuthority" /\ ret.err = NoError =>
        /\ \/ Len(args.ins.Data) = 3 /\ args.ins.Data[3] = 0
           \/ Len(args.ins.Data) = 3 + PublicKeySize /\ args.ins.Data[3] = 1
        /\ ret.v[1].NewAuthority # <<>> <=> args.ins.Data[3] = 1

\* what the code does guarantee: an accepted instruction belongs to the
\* token program, has 2 accounts and the SetAuthority command; flag 0 comes
\* with 3 bytes, flag 1 with 35 bytes and the new authority they hold; any
\* other flag is accepted with every length from 3 on and no new authority
C15_FlagsZeroAndOne ==
    op = "DecompileSetAuthority" =>
        ret.err = NoError <=>
            /\ args.program = TokenProgramKey
            /\ Len(args.ins.Accounts) = 2
            /\ Len(args.ins.Data) >= 3
            /\ args.ins.Data[1] = commandSetAuthority
            /\ args.ins.Data[3] = 0 => Len(args.ins.Data) = 3
            /\ args.ins.Data[3] = 1 => Len(args.ins.Data) = 3 + PublicKeySize

\* an instruction with flag 2 and 4 bytes of data was accepted
C15_Witness ==
    /\ op = "DecompileSetAuthority"
    /\ ret.err = NoError
    /\ args.flag = 2
    /\ Len(args.ins.Data) = 4
    /\ ret.v[1].NewAuthority = <<>>

(***************************************************************************)
(* system.CreateAccount and DecompileCreateAccount: on the instruction the *)
(* builder makes, on an AdvanceNonce instruction, and on instructions      *)
(* whose program, number of accounts, command tag and data length are      *)
(* drawn freely.                                                           *)
(***************************************************************************)
\* the first len bytes of a command tag, lamports, size and owner
CreateAccountData(tag, lamports, size, owner, len) ==
    SubSeq(tag \o PutUint(8, lamports) \o PutUint(8, size) \o owner \o <<0>>, 1, len)

\* command tags as they lie in the data: CreateAccount, AdvanceNonce, and
\* tags that are not 0 in their second and in their last byte
CommandTags == {<<0, 0, 0, 0>>, <<4, 0, 0, 0>>, <<0, 1, 0, 0>>, <<0, 0, 0, 1>>}

InitSystem ==
    /\ NoParse
    /\ NoProcessor
    /\ NoConfig
    /\ op = ""
    /\ ret = <<>>
    /\ args \in [funder : {Subsidizer, Wallet}, address : {AddrA, Wallet},
                  owner : {TokenProgramKey, Wallet},
                  lamports : {0, 10, 2147483647}, size : {0, AccountSize, 65536},
                  program : {SystemProgramKey, TokenProgramKey}, n : {1, 2, 3},
                  tag : CommandTags, len : {0, 51, 52, 53}]

CreateAccountRoundTrip ==
    Call("CreateAccount",
         DecompileCreateAccount(
             Compiled(CreateAccount(args.funder, args.address, args.owner,
                                    args.lamports, args.size)), 0))

AdvanceNonceCall ==
    Call("AdvanceNonce",
         DecompileCreateAccount(Compiled(AdvanceNonce(args.address, args.funder)), 0))

DecompileCreateAccountCall ==
    Call("DecompileCreateAccount",
         DecompileCreateAccount(
             <<RawInstruction(args.program, args.n,
                              CreateAccountData(args.tag, args.lamports, args.size,
                                                args.owner, args.len))>>, 0))

NextSystem == CreateAccountRoundTrip \/ AdvanceNonceCall \/ DecompileCreateAccountCall

SpecSystem == InitSystem /\ [][NextSystem]_vars

\* ---------------------------------------------------------------------------
\* C16: DecompileCreateAccount succeeds exactly on the instructions of the
\* system program with 2 accounts, 52 bytes of data and a little-endian
\* command tag of 0; it returns the funder, address, lamports, size and
\* owner that CreateAccount encoded, and an error on an AdvanceNonce
\* instruction.
C16_CreateAccount ==
    /\ op = "CreateAccount" =>
          ret = Ok([Funder |-> args.funder, Address |-> args.address,
                    Lamports |-> args.lamports, Size |-> args.size,
                    Owner |-> args.owner])
    /\ op = "AdvanceNonce" => ret.err # NoError
    /\ op = "DecompileCreateAccount" =>
          /\ ret.err = NoError <=>
                /\ args.program = SystemProgramKey
                /\ args.n = 2
                /\ args.len = 52
                /\ LittleEndianUint(args.tag) = commandCreateAccount
          /\ ret.err = NoError =>
                ret.v[1] = [Funder |-> Wallet, Address |-> Mint,
                            Lamports |-> args.lamports, Size |-> args.size,
                            Owner |-> args.owner]

\* an instruction of the right shape was decompiled into what it encodes
C16_Witness ==
    /\ op = "DecompileCreateAccount"
    /\ args.tag = <<0, 0, 0, 0>>
    /\ args.lamports = 2147483647
    /\ args.size = AccountSize
    /\ ret.err = NoError
    /\ ret.v[1].Lamports = 2147483647
    /\ ret.v[1].Size = AccountSize

(***************************************************************************)
(* token.Account and its 165-byte encoding.  A key field is a byte slice:  *)
(* the empty sequence is the nil slice.  IsNative is None or Some(value).  *)
(* A writer and a loader advance the offset they are handed.               *)
(***************************************************************************)
Zeros(n) == [k \in 1..n |-> 0]

\* copy(dst[at:], src): as many bytes as both sides hold
Copy(dst, at, src) ==
    [k \in 1..Len(dst) |->
        IF k > at /\ k - at <= Len(src) THEN src[k - at] ELSE dst[k]]

writeKey(w, src) ==
    [b |-> Copy(w.b, w.offset, src), offset |-> w.offset + PublicKeySize]

writeOptionalKey(w, src) ==
    [b |-> IF Len(src) > 0
           THEN Copy(Copy(w.b, w.offset, <<1>>), w.offset + 4, src)
           ELSE w.b,
     offset |-> w.offset + 4 + PublicKeySize]

writeUint64(w, v) ==
    [b |-> Copy(w.b, w.offset, PutUint(8, v)), offset |-> w.offset + 8]

writeOptionalUint64(w, v) ==
    [b |-> IF v # None
           THEN Copy(Copy(w.b, w.offset, <<1>>), w.offset + 4, PutUint(8, v[1]))
           ELSE w.b,
     offset |-> w.offset + 4 + 8]

\* b[offset] = byte(a.State); offset++
writeState(w, state) ==
    [b |-> Copy(w.b, w.offset, <<state>>), offset |-> w.offset + 1]

\* (a *Account) Marshal()
AccountMarshal(a) ==
    writeOptionalKey(
        writeUint64(
            writeOptionalUint64(
                writeState(
                    writeOptionalKey(
                        writeUint64(
                            writeKey(
                                writeKey([b |-> Zeros(AccountSize), offset |-> 0], a.Mint),
                                a.Owner),
                            a.Amount),
                        a.Delegate),
                    a.State),
                a.IsNative),
            a.DelegatedAmount),
        a.CloseAuthority).b

\* var a Account
ZeroAccount ==
    [Mint |-> <<>>, Owner |-> <<>>, Amount |-> 0, Delegate |-> <<>>, State |-> 0,
     IsNative |-> None, DelegatedAmount |-> 0, CloseAuthority |-> <<>>]

loadKey(b, l, field) ==
    [a |-> [l.a EXCEPT ![field] = SubSeq(b, l.offset + 1, l.offset + PublicKeySize)],
     offset |-> l.offset + PublicKeySize]

\* a faulty loader: the key is read right after the first byte of the tag
loadOptionalKeyNoSkip(b, l, field) ==
    [a |-> IF b[l.offset + 1] = 1
           THEN [l.a EXCEPT ![field] =
                    SubSeq(b, l.offset + 2, l.offset + 1 + PublicKeySize)]
           ELSE l.a,
     offset |-> l.offset + 4 + PublicKeySize]

loadOptionalKey(b, l, field) ==
    [a |-> IF b[l.offset + 1] = 1
           THEN [l.a EXCEPT ![field] =
                    SubSeq(b, l.offset + 5, l.offset + 4 + PublicKeySize)]
           ELSE l.a,
     offset |-> l.offset + 4 + PublicKeySize]

loadUint64(b, l, field) ==
    [a |-> [l.a EXCEPT ![field] = LittleEndianUint(SubSeq(b, l.offset + 1, l.offset + 8))],
     offset |-> l.offset + 8]

loadOptionalUint64(b, l, field) ==
    [a |-> IF b[l.offset + 1] = 1
           THEN [l.a EXCEPT ![field] =
                    Some(LittleEndianUint(SubSeq(b, l.offset + 5, l.offset + 12)))]
           ELSE l.a,
     offset |-> l.offset + 4 + 8]

\* a.State = AccountState(b[offset]); offset++
loadState(b, l) ==
    [a |-> [l.a EXCEPT !.State = b[l.offset + 1]], offset |-> l.offset + 1]

\* (a *Account) Unmarshal(b): the result and the receiver after the call
AccountUnmarshal(a, b) ==
    IF Len(b) # AccountSize THEN [ok |-> FALSE, a |-> a]
    ELSE [ok |-> TRUE,
          a |-> loadOptionalKey(b,
                    loadUint64(b,
                        loadOptionalUint64(b,
                            loadState(b,
                                loadOptionalKey(b,
                                    loadUint64(b,
                                        loadKey(b,
                                            loadKey(b, [a |-> a, offset |-> 0], "Mint"),
                                            "Owner"),
                                        "Amount"),
                                    "Delegate")),
                            "IsNative"),
                        "DelegatedAmount"),
                    "CloseAuthority").a]

\* accounts with and without each optional field, with and without the
\* mint and the owner set, in every account state and another state byte
Accounts ==
    [Mint : {<<>>, Mint}, Owner : {<<>>, Wallet}, Amount : {0, 256, 2147483647},
     Delegate : {<<>>, AddrB}, State : {0, 1, 2, 255},
     IsNative : {None, Some(0), Some(65536)}, DelegatedAmount : {0, 7},
     CloseAuthority : {<<>>, Wallet}]

\* the first n bytes of b, followed by zeros when b is shorter
Resize(b, n) == [k \in 1..n |-> IF k <= Len(b) THEN b[k] ELSE 0]

InitAccount ==
    /\ NoParse
    /\ NoProcessor
    /\ NoConfig
    /\ op = ""
    /\ ret = <<>>
    /\ args \in [a : Accounts, len : {0, AccountSize - 1, AccountSize, AccountSize + 1}]

\* rtt.Unmarshal(a.Marshal()) on a fresh rtt
MarshalRoundTrip ==
    Call("Marshal",
         [bytes |-> AccountMarshal(args.a),
          back |-> AccountUnmarshal(ZeroAccount, AccountMarshal(args.a))])

\* Unmarshal of an input of any length
UnmarshalCall ==
    Call("Unmarshal", AccountUnmarshal(ZeroAccount, Resize(AccountMarshal(args.a), args.len)))

NextAccount == MarshalRoundTrip \/ UnmarshalCall

SpecAccount == InitAccount /\ [][NextAccount]_vars

\* the mint and the owner are keys, the optional keys absent or keys
WellFormed(a) ==
    /\ Len(a.Mint) = PublicKeySize
    /\ Len(a.Owner) = PublicKeySize
    /\ Len(a.Delegate) \in {0, PublicKeySize}
    /\ Len(a.CloseAuthority) \in {0, PublicKeySize}

\* ---------------------------------------------------------------------------
\* C17 as stated: every Account marshals into 165 bytes that unmarshal
\* into an equal Account, and Unmarshal returns false for every input that
\* is not 165 bytes long.
C17_EveryAccountRoundTrips ==
    /\ op = "Marshal" =>
          /\ Len(ret.bytes) = AccountSize
          /\ ret.back.ok
          /\ ret.back.a = args.a
    /\ op = "Unmarshal" /\ args.len # AccountSize => ~ret.ok

\* C17: every Account marshals into 165 bytes, with or without its
\* optional fields, and the bytes unmarshal into a fresh Account; the
\* result equals the Account when its mint and owner are 32-byte keys, and
\* has 32 zero bytes in place of a mint or owner that is not set; Unmarshal
\* returns false exactly for the inputs that are not 165 bytes long and
\* then leaves the receiver as it was.
C17_AccountRoundTrip ==
    /\ op = "Marshal" =>
          /\ Len(ret.bytes) = AccountSize
          /\ ret.back.ok
          /\ WellFormed(args.a) => ret.back.a = args.a
          /\ ret.back.a =
                [args.a EXCEPT !.Mint = Resize(args.a.Mint, PublicKeySize),
                               !.Owner = Resize(args.a.Owner, PublicKeySize)]
    /\ op = "Unmarshal" =>
          /\ ret.ok <=> args.len = AccountSize
          /\ ~ret.ok => ret.a = ZeroAccount

\* an Account with every optional field present came back equal
C17_Witness ==
    /\ op = "Marshal"
    /\ WellFormed(args.a)
    /\ args.a.Delegate # <<>>
    /\ args.a.IsNative = Some(65536)
    /\ args.a.CloseAuthority # <<>>
    /\ args.a.Amount = 2147483647
    /\ ret.back.a = args.a

(***************************************************************************)
(* The agora memo codec: NewMemo on drawn arguments, read back by the      *)
(* accessors of Memo.                                                      *)
(***************************************************************************)
\* the foreign keys of the test: byte j is start + j, wrapping at 256
PatternKey(start) == [j \in 1..ForeignKeySize |-> (start + j - 1) % 256]

ForeignKeys ==
    {<<>>, <<1, 255>>, [j \in 1..ForeignKeySize |-> 255],
     ForeignKeyOf(Invoices1, 0), ForeignKeyOf(Invoices1, 1)}
    \cup {PatternKey(29 * k) : k \in 0..8}
    \cup {SubSeq(PatternKey(58), 1, n) : n \in {1, 27, 28}}

InitMemoCodec ==
    /\ NoParse
    /\ NoProcessor
    /\ NoConfig
    /\ op = ""
    /\ ret = <<>>
    /\ args \in [v : {0, 1, 7, 8}, t : {0, 1, 3, 4, 8, 31, 32},
                  appIndex : {0, 1, 63, 64, 16383, 16384, 65535},
                  foreignKey : ForeignKeys]

NewMemoCall ==
    Call("NewMemo",
         [err |-> NewMemoError(args.v, args.t),
          m |-> IF NewMemoError(args.v, args.t) = NoError
                THEN NewMemo(args.v, args.t, args.appIndex, args.foreignKey)
                ELSE Zeros(MemoSize)])

NextMemoCodec == NewMemoCall

SpecMemoCodec == InitMemoCodec /\ [][NextMemoCodec]_vars

\* ---------------------------------------------------------------------------
\* C18: for a version up to 7, a transaction type up to 31, any app index
\* and a foreign key of up to 29 bytes NewMemo succeeds; the memo reads back
\* the version, the type and the app index; the first 28 bytes of the
\* foreign key it reads are the input padded with zeros, the 29th is the low
\* 6 bits of the input's 29th byte.
C18_MemoRoundTrip ==
    op = "NewMemo" /\ args.v <= 7 /\ args.t <= 31 =>
        /\ ret.err = NoError
        /\ ret.m[1] % 4 = magicByte
        /\ MemoVersion(ret.m) = args.v
        /\ MemoTransactionType(ret.m) = args.t
        /\ MemoAppIndex(ret.m) = args.appIndex
        /\ Len(MemoForeignKey(ret.m)) = ForeignKeySize
        /\ \A j \in 1..(ForeignKeySize - 1) :
              MemoForeignKey(ret.m)[j] = Resize(args.foreignKey, ForeignKeySize)[j]
        /\ MemoForeignKey(ret.m)[ForeignKeySize] =
              Resize(args.foreignKey, ForeignKeySize)[ForeignKeySize] % 64

\* a memo with the largest version, type and app index and a foreign key of
\* 29 bytes of 255 was read back; the 29th byte came back as 63
C18_Witness ==
    /\ op = "NewMemo"
    /\ args.v = 7 /\ args.t = 31 /\ args.appIndex = 65535
    /\ args.foreignKey = [j \in 1..ForeignKeySize |-> 255]
    /\ ret.err = NoError
    /\ MemoAppIndex(ret.m) = 65535
    /\ MemoForeignKey(ret.m)[ForeignKeySize] = 63

(***************************************************************************)
(* The SQS task processor.  TaskConcurrency workers poll the queue; a      *)
(* received message is in flight until its visibility timeout expires or   *)
(* it is deleted.  Time is abstract: a timer of processTask and the        *)
(* visibility timeout of a message may each expire at any moment.  The     *)
(* queue itself (Amazon SQS) is the environment of the processor.          *)
(***************************************************************************)
TaskConcurrency == 1
NumMessages == 1
\* the largest MaxVisibilityExtensions a config is drawn with
MaxExtensions == 1
\* deliveries of one message that a run follows
MaxDeliveries == 2

Workers == 1..TaskConcurrency
Messages == 1..NumMessages

\* a worker outside processTask
IdleWorker ==
    [pc |-> "check", handle |-> 0, ext |-> 0, result |-> "none", outcome |-> ""]

InitQueue ==
    /\ NoParse
    /\ NoConfig
    /\ NoCallers
    /\ op = "" /\ args = <<>> /\ ret = <<>>
    /\ conf \in [VisibilityExtensionEnabled : BOOLEAN,
                  MaxVisibilityExtensions : 0..MaxExtensions]
    /\ shutdownCh = FALSE
    /\ \E valid \in [Messages -> BOOLEAN] :
          messages = [m \in Messages |->
                         [state |-> "visible", valid |-> valid[m], deliveries |-> 0,
                          last |-> "", cause |-> "", goroutine |-> "none"]]
    /\ workers = [w \in Workers |-> IdleWorker]

\* the step of one worker: its record, and the queue as it leaves it
WorkerStep(w, next, queue) ==
    /\ workers' = [workers EXCEPT ![w] = next]
    /\ messages' = queue
    /\ UNCHANGED <<conf, shutdownCh, parser, op, args, ret, etcd, api>>

\* a faulty loop test: one iteration too many
LoopConditionOffByOne(ext, max) == ext <= max

\* for ext := 0; ext < q.conf.MaxVisibilityExtensions; ext++
LoopCondition(ext, max) == ext < max

\* a faulty worker: the message is deleted whatever processTask returned
AfterProcessTaskAlwaysDelete(outcome) == "delete"

\* taskWorker after processTask: delete on a nil error, else poll again
AfterProcessTask(outcome) == IF outcome = "nil" THEN "delete" ELSE "check"

\* the goroutine that runs the handler, `go func() { result <- q.handler(ctx,
\* msg) }()`, as processTask leaves it: ended if its value was received,
\* else in the handler ("running") or at `result <-` ("sending")
Goroutine(w, outcome) ==
    IF outcome \in {"nil", "error"} THEN "ended"
    ELSE IF workers[w].result = "running" THEN "running"
    ELSE "sending"

\* processTask returns `outcome`, which the message records as that of its
\* last delivery together with the goroutine of that delivery; the worker
\* drops its locals unless it goes on to delete
Returned(w, outcome) ==
    WorkerStep(w,
        IF AfterProcessTask(outcome) = "delete"
        THEN [workers[w] EXCEPT !.pc = "delete", !.outcome = outcome, !.result = "none",
                                !.ext = 0]
        ELSE IdleWorker,
        [messages EXCEPT ![workers[w].handle].last = outcome,
                         ![workers[w].handle].goroutine = Goroutine(w, outcome)])

\* select { case <-q.shutdownCh: return; default: }
CheckShutdown(w) ==
    /\ workers[w].pc = "check"
    /\ WorkerStep(w, [IdleWorker EXCEPT !.pc = IF shutdownCh THEN "stopped" ELSE "receive"],
                  messages)

\* ReceiveMessage returns an error or no message
ReceiveNothing(w) ==
    /\ workers[w].pc = "receive"
    /\ WorkerStep(w, IdleWorker, messages)

\* ReceiveMessage returns message m, which the queue hides; a message that
\* does not decode is deleted right away, a task goes to processTask, which
\* starts the handler
ReceiveMessage(w, m) ==
    /\ workers[w].pc = "receive"
    /\ messages[m].state = "visible"
    /\ messages[m].deliveries < MaxDeliveries
    /\ WorkerStep(w,
          [IdleWorker EXCEPT !.handle = m,
                             !.pc = IF messages[m].valid THEN "select" ELSE "deleteInvalid",
                             !.result = IF messages[m].valid THEN "running" ELSE "none"],
          [messages EXCEPT ![m].state = "inflight",
                           ![m].deliveries = messages[m].deliveries + 1])

\* q.deleteMessage(receiptHandle): the queue drops the message, or the call
\* fails
deleteMessage(w, cause, ok) ==
    WorkerStep(w, IdleWorker,
        IF ok /\ messages[workers[w].handle].state # "deleted"
        THEN [messages EXCEPT ![workers[w].handle].state = "deleted",
                              ![workers[w].handle].cause = cause]
        ELSE messages)

DeleteInvalid(w) ==
    /\ workers[w].pc = "deleteInvalid"
    /\ \E ok \in BOOLEAN : deleteMessage(w, "invalid", ok)

DeleteCompleted(w) ==
    /\ workers[w].pc = "delete"
    /\ \E ok \in BOOLEAN : deleteMessage(w, workers[w].outcome, ok)

\* the handler goroutine: q.handler returns, the value waits on the channel
HandlerReturns(w) ==
    /\ workers[w].result = "running"
    /\ \E value \in {"nil", "error"} :
          WorkerStep(w, [workers[w] EXCEPT !.result = value], messages)

\* a handler goroutine that processTask left in the handler: q.handler
\* returns and the goroutine is at `result <-`, a channel that only the
\* processTask call that made it receives from
AbandonedHandlerReturns(m) ==
    /\ messages[m].goroutine = "running"
    /\ messages' = [messages EXCEPT ![m].goroutine = "sending"]
    /\ UNCHANGED <<conf, shutdownCh, workers, parser, op, args, ret, etcd, api>>

\* in the select of processTask
Selecting(w) ==
    /\ workers[w].pc = "select"
    /\ LoopCondition(workers[w].ext, conf.MaxVisibilityExtensions)

\* case <-q.shutdownCh
SelectShutdown(w) ==
    /\ Selecting(w)
    /\ shutdownCh
    /\ Returned(w, "shutdown")

\* case err := <-result
SelectResult(w) ==
    /\ Selecting(w)
    /\ workers[w].result \in {"nil", "error"}
    /\ Returned(w, workers[w].result)

\* case <-time.After(keepAliveInterval), extension disabled
SelectTimeout(w) ==
    /\ Selecting(w)
    /\ ~conf.VisibilityExtensionEnabled
    /\ Returned(w, "timeout")

\* case <-time.After(keepAliveInterval): q.extendVisibilityTimeout succeeds
\* on a message in flight, and the loop goes on with ext++
ExtendVisibility(w) ==
    /\ Selecting(w)
    /\ conf.VisibilityExtensionEnabled
    /\ messages[workers[w].handle].state = "inflight"
    /\ WorkerStep(w, [workers[w] EXCEPT !.ext = workers[w].ext + 1], messages)

\* q.extendVisibilityTimeout fails
ExtendFails(w) ==
    /\ Selecting(w)
    /\ conf.VisibilityExtensionEnabled
    /\ Returned(w, "extend failed")

\* the loop test fails: max visibility extensions exceeded
LimitReached(w) ==
    /\ workers[w].pc = "select"
    /\ ~LoopCondition(workers[w].ext, conf.MaxVisibilityExtensions)
    /\ Returned(w, "max visibility extensions")

\* the queue: the visibility timeout of a message in flight expires
VisibilityExpires(m) ==
    /\ messages[m].state = "inflight"
    /\ messages' = [messages EXCEPT ![m].state = "visible"]
    /\ UNCHANGED <<conf, shutdownCh, workers, parser, op, args, ret, etcd, api>>

\* close(q.shutdownCh), once
Shutdown ==
    /\ ~shutdownCh
    /\ shutdownCh' = TRUE
    /\ UNCHANGED <<conf, messages, workers, parser, op, args, ret, etcd, api>>

NextQueue ==
    \/ \E w \in Workers : CheckShutdown(w)
    \/ \E w \in Workers : ReceiveNothing(w)
    \/ \E w \in Workers, m \in Messages : ReceiveMessage(w, m)
    \/ \E w \in Workers : DeleteInvalid(w)
    \/ \E w \in Workers : DeleteCompleted(w)
    \/ \E w \in Workers : HandlerReturns(w)
    \/ \E m \in Messages : AbandonedHandlerReturns(m)
    \/ \E w \in Workers : SelectShutdown(w)
    \/ \E w \in Workers : SelectResult(w)
    \/ \E w \in Workers : SelectTimeout(w)
    \/ \E w \in Workers : ExtendVisibility(w)
    \/ \E w \in Workers : ExtendFails(w)
    \/ \E w \in Workers : LimitReached(w)
    \/ \E m \in Messages : VisibilityExpires(m)
    \/ Shutdown

SpecQueue == InitQueue /\ [][NextQueue]_vars

\* the outcomes of processTask other than the handler's nil
Failures ==
    {"error", "timeout", "extend failed", "max visibility extensions", "shutdown"}

\* worker w leaves processTask in this step
LeavesProcessTask(w) == workers[w].pc = "select" /\ workers'[w].pc # "select"

\* ---------------------------------------------------------------------------
\* C19: a message that decodes to a task is deleted only by a worker whose
\* processTask received nil from the handler.  When processTask ends any
\* other way (handler error, timer with extension disabled, failed
\* extension, extension limit, shutdown) the worker does not delete: it
\* polls again and the message stays on the queue, to be delivered again
\* when its visibility timeout expires.
C19_DeletedOnlyAfterNil ==
    /\ [](\A m \in Messages :
            messages[m].state = "deleted" /\ messages[m].valid =>
                messages[m].cause = "nil")
    /\ [](\A w \in Workers : workers[w].pc = "delete" => workers[w].outcome = "nil")
    /\ [][\A w \in Workers :
            LeavesProcessTask(w) =>
                /\ messages'[workers[w].handle].state = messages[workers[w].handle].state
                /\ workers'[w].pc = "delete" <=>
                      /\ workers[w].result = "nil"
                      /\ messages'[workers[w].handle].last = "nil"
                /\ workers'[w].pc # "delete" =>
                      /\ workers'[w].pc = "check"
                      /\ messages'[workers[w].handle].last \in Failures]_vars
    /\ [][\A m \in Messages :
            /\ messages[m].valid
            /\ messages[m].state # "deleted"
            /\ messages'[m].state = "deleted"
            => \E w \in Workers :
                  /\ workers[w].pc = "delete"
                  /\ workers[w].handle = m
                  /\ workers'[w].pc = "check"]_vars

\* the handler returned an error for a message, the message was not
\* deleted, and it is with the handler a second time
C19_Witness ==
    \E w \in Workers, m \in Messages :
        /\ messages[m].valid
        /\ messages[m].last = "error"
        /\ messages[m].deliveries = 2
        /\ messages[m].state = "inflight"
        /\ workers[w].pc = "select"
        /\ workers[w].handle = m
        /\ workers[w].result = "running"

\* ---------------------------------------------------------------------------
\* C20: within one delivery the visibility timeout of the message is
\* extended at most MaxVisibilityExtensions times, and never when
\* VisibilityExtensionEnabled is false; a worker that has reached the
\* limit takes no further case of the select: it leaves processTask with
\* the limit error and does not delete, so that the message is on the queue
\* as that delivery left it and becomes visible when its timeout expires.
C20_ExtensionLimit ==
    /\ [](\A w \in Workers :
            /\ workers[w].ext <= conf.MaxVisibilityExtensions
            /\ ~conf.VisibilityExtensionEnabled => workers[w].ext = 0)
    /\ [][\A w \in Workers :
            /\ workers[w].pc = "select"
            /\ workers[w].ext = conf.MaxVisibilityExtensions
            /\ <<workers'[w].pc, workers'[w].ext>> # <<workers[w].pc, workers[w].ext>>
            => /\ workers'[w].pc = "check"
               /\ messages'[workers[w].handle].last = "max visibility extensions"
               /\ messages'[workers[w].handle].state = messages[workers[w].handle].state]_vars

\* the limit was reached after MaxExtensions extensions and the message is
\* visible on the queue again
C20_Witness ==
    \E m \in Messages :
        /\ conf.VisibilityExtensionEnabled
        /\ conf.MaxVisibilityExtensions = MaxExtensions
        /\ messages[m].last = "max visibility extensions"
        /\ messages[m].state = "visible"
        /\ \A w \in Workers : workers[w].pc \in {"check", "receive"}

(***************************************************************************)
(* The etcd-backed config (config/etcd/config.go).  NewConfig reads the    *)
(* key once and starts the watch goroutine; clients of etcd put and delete *)
(* the key; callers of the config call Get and Shutdown.                   *)
(***************************************************************************)
MaxRevisions == 3       \* puts and deletes of the key after NewConfig
MaxRefreshes == 2       \* times retry.Retry runs the watch function again

ConfigValues == {<<1>>, <<2>>}

ErrShutdown == "config: shutdown"
ErrNoValue == "config: no value"

PutEvent(v) == [Type |-> "PUT", Value |-> v]
DeleteEvent == [Type |-> "DELETE", Value |-> <<>>]

\* clientv3.WithFilterDelete(): the server leaves delete events out
WithFilterDelete(events) == SelectSeq(events, LAMBDA e : e.Type # "DELETE")

\* a faulty refresh: the value is taken even when the key is gone
RefreshValueAlways(c, kvs) ==
    [c EXCEPT !.val = IF Len(kvs) > 0 THEN kvs[1].Value ELSE <<>>]

\* watch, after its own Get: if len(get.Kvs) > 0 { c.val = get.Kvs[0].Value }
RefreshValue(c, kvs) ==
    IF Len(kvs) > 0 THEN [c EXCEPT !.val = kvs[1].Value] ELSE c

\* for _, e := range resp.Events: skip what is not a put, keep the last put
RECURSIVE ScanEvents(_, _)
ScanEvents(events, st) ==
    IF events = <<>> THEN st
    ELSE ScanEvents(Tail(events),
                    IF Head(events).Type # "PUT" THEN st
                    ELSE [newValue |-> TRUE, lastValue |-> Head(events).Value])

\* one watch response: if newValue { c.val = lastValue }
ProcessResponse(c, events) ==
    LET st == ScanEvents(events, [newValue |-> FALSE, lastValue |-> <<>>])
    IN  IF st.newValue THEN [c EXCEPT !.val = st.lastValue] ELSE c

\* conf.Get
Get(c) ==
    IF c.shutdownCh THEN Fail(ErrShutdown)
    ELSE IF c.empty THEN Fail(ErrNoValue)
    ELSE Ok(c.val)

\* the values of the puts among events, in order
PutValues(events) ==
    LET puts == SelectSeq(events, LAMBDA e : e.Type = "PUT")
    IN  [k \in DOMAIN puts |-> puts[k].Value]

\* NewConfig has returned a config: the key held kvs when it was read
InitConfig ==
    /\ NoParse
    /\ NoProcessor
    /\ op = "" /\ args = <<>> /\ ret = <<>>
    /\ \E kvs \in {<<>>} \cup {<<[Value |-> v]>> : v \in ConfigValues} :
          /\ server = [kvs |-> kvs, events |-> <<>>, initial |-> kvs]
          /\ cfg = [val |-> IF Len(kvs) > 0 THEN kvs[1].Value ELSE <<>>,
                    empty |-> ~(Len(kvs) > 0),
                    shutdownCh |-> FALSE,
                    ctx |-> "live"]
    /\ watcher = [pc |-> "watch", rev |-> 0, refreshes |-> 0]
    /\ observed = <<>>

\* a client of etcd puts v under the key
Put(v) ==
    /\ Len(server.events) < MaxRevisions
    /\ server' = [server EXCEPT !.kvs = <<[Value |-> v]>>,
                                !.events = Append(@, PutEvent(v))]
    /\ UNCHANGED <<cfg, watcher, observed, parser, op, args, ret, processor>>

\* a client of etcd deletes the key
Delete ==
    /\ Len(server.events) < MaxRevisions
    /\ Len(server.kvs) > 0
    /\ server' = [server EXCEPT !.kvs = <<>>, !.events = Append(@, DeleteEvent)]
    /\ UNCHANGED <<cfg, watcher, observed, parser, op, args, ret, processor>>

\* watch := c.client.Watch(ctx, c.key, ...): events from now on
WatchCreate ==
    /\ watcher.pc = "watch"
    /\ watcher' = [watcher EXCEPT !.pc = "get", !.rev = Len(server.events)]
    /\ UNCHANGED <<server, cfg, observed, parser, op, args, ret, processor>>

\* get, err := c.client.Get(ctx, c.key) succeeds
WatchGet ==
    /\ watcher.pc = "get"
    /\ cfg.ctx = "live"
    /\ cfg' = RefreshValue(cfg, server.kvs)
    /\ observed' = observed \o [k \in DOMAIN server.kvs |-> server.kvs[k].Value]
    /\ watcher' = [watcher EXCEPT !.pc = "range"]
    /\ UNCHANGED <<server, parser, op, args, ret, processor>>

\* the function passed to retry.Retry returns err; context.Canceled is not
\* retried, any other error is
Retry(canceled) ==
    /\ canceled \/ watcher.refreshes < MaxRefreshes
    /\ watcher' = IF canceled THEN [watcher EXCEPT !.pc = "stopped"]
                  ELSE [watcher EXCEPT !.pc = "watch", !.refreshes = @ + 1]
    /\ UNCHANGED <<server, cfg, observed, parser, op, args, ret, processor>>

\* c.client.Get fails: with context.Canceled once the context is cancelled,
\* with some other error before
WatchGetFails ==
    /\ watcher.pc = "get"
    /\ Retry(cfg.ctx = "canceled")

\* for resp = range watch: a response carrying the next n events of the key
WatchResponse ==
    /\ watcher.pc = "range"
    /\ \E n \in 1..(Len(server.events) - watcher.rev) :
          \E batch \in {WithFilterDelete(SubSeq(server.events, watcher.rev + 1,
                                                 watcher.rev + n))} :
             /\ cfg' = ProcessResponse(cfg, batch)
             /\ observed' = observed \o PutValues(batch)
             /\ watcher' = [watcher EXCEPT !.rev = @ + n]
    /\ UNCHANGED <<server, parser, op, args, ret, processor>>

\* the response is cancelled or carries an error, or the channel is closed:
\* the function returns an error that is not context.Canceled
WatchEnds ==
    /\ watcher.pc = "range"
    /\ Retry(FALSE)

\* conf.Shutdown: shutdownOnce.Do(close(c.shutdownCh); c.cancelWatch())
ConfigShutdown ==
    /\ cfg' = IF cfg.shutdownCh THEN cfg
              ELSE [cfg EXCEPT !.shutdownCh = TRUE, !.ctx = "canceled"]
    /\ UNCHANGED <<server, watcher, observed, parser, op, args, ret, processor>>

\* a caller calls Get
GetCall ==
    /\ op' = "Get"
    /\ ret' = Get(cfg)
    /\ UNCHANGED <<args, parser, processor, etcd>>

NextConfig ==
    \/ \E v \in ConfigValues : Put(v)
    \/ Delete
    \/ WatchCreate
    \/ WatchGet
    \/ WatchGetFails
    \/ WatchResponse
    \/ WatchEnds
    \/ ConfigShutdown
    \/ GetCall

SpecConfig == InitConfig /\ [][NextConfig]_vars

\* the value read at creation followed by those of the puts the watcher has
\* processed
Processed == [k \in DOMAIN server.initial |-> server.initial[k].Value] \o observed

\* what Get is to return for a key that had a value at creation
ExpectedGet ==
    IF cfg.shutdownCh THEN Fail(ErrShutdown) ELSE Ok(Processed[Len(Processed)])

\* C21: for a key that had a value when the config was created, Get returns
\* ErrShutdown once Shutdown has been called and otherwise the value of the
\* put the watcher processed last (the value read at creation before it has
\* processed any); every call of Get returns just that, and a delete of the
\* key leaves what Get returns as it was.
C21_GetReturnsLastPut ==
    /\ [](Len(server.initial) > 0 => Get(cfg) = ExpectedGet)
    /\ [][(Len(server.initial) > 0 /\ GetCall) => ret' = ExpectedGet]_vars
    /\ [][(Len(server.initial) > 0 /\ Delete) => Get(cfg') = Get(cfg)]_vars

\* the key had value 1, was put to 2 and deleted; the watcher processed the
\* put, lost its watch and refreshed after the delete; Get still returns 2
C21_Witness ==
    /\ server.initial = <<[Value |-> <<1>>]>>
    /\ server.events = <<PutEvent(<<2>>), DeleteEvent>>
    /\ watcher.refreshes = 1
    /\ watcher.pc = "range"
    /\ observed = <<<<1>>, <<2>>>>
    /\ op = "Get"
    /\ ret = Ok(<<2>>)

\* C29: for a key that had no value when the config was created, once the
\* watcher has processed a put of the key, Get returns the put value.
C29_PutObserved ==
    (Len(server.initial) = 0 /\ Len(observed) > 0 /\ ~cfg.shutdownCh)
        => Get(cfg) = Ok(observed[Len(observed)])

(***************************************************************************)
(* Fixed-width integers.  A signed integer of n bytes is the sequence of   *)
(* its n bytes in two's complement, least significant first; int64 and     *)
(* time.Duration have 8 bytes.  The arithmetic wraps as Go's does.  The    *)
(* same operators at 16 bytes give the exact value of every expression of  *)
(* ParseISO8601 and ToQuarks, whose operands stay below 2^64 in magnitude  *)
(* and whose factors stay below 2^48.                                      *)
(***************************************************************************)
Int64Bytes == 8
WideBytes == 2 * Int64Bytes

\* the n bytes of the natural number v
RECURSIVE FromNat(_, _)
FromNat(v, n) == IF n = 0 THEN <<>> ELSE <<v % 256>> \o FromNat(v \div 256, n - 1)

\* the sign bit
IsNeg(x) == x[Len(x)] >= 128

\* x + y + carry, wrapped to the width of x
RECURSIVE AddFrom(_, _, _)
AddFrom(x, y, carry) ==
    IF x = <<>> THEN <<>>
    ELSE <<(x[1] + y[1] + carry) % 256>>
             \o AddFrom(Tail(x), Tail(y), (x[1] + y[1] + carry) \div 256)

Add(x, y) == AddFrom(x, y, 0)

\* -x, wrapped: the minimum value is its own negation
Neg(x) == AddFrom([k \in DOMAIN x |-> 255 - x[k]], [k \in DOMAIN x |-> 0], 1)

\* y * d + carry for one byte d, wrapped to the width of y
RECURSIVE Scale(_, _, _)
Scale(y, d, carry) ==
    IF y = <<>> THEN <<>>
    ELSE <<(y[1] * d + carry) % 256>> \o Scale(Tail(y), d, (y[1] * d + carry) \div 256)

\* x * y, wrapped to their common width
RECURSIVE Mul(_, _)
Mul(x, y) ==
    IF x = <<>> THEN <<>>
    ELSE Add(Scale(y, x[1], 0), <<0>> \o Mul(Tail(x), SubSeq(y, 1, Len(y) - 1)))

\* x < y for unsigned x and y of the same width
RECURSIVE Below(_, _)
Below(x, y) ==
    /\ x # <<>>
    /\ \/ x[Len(x)] < y[Len(y)]
       \/ /\ x[Len(x)] = y[Len(y)]
          /\ Below(SubSeq(x, 1, Len(x) - 1), SubSeq(y, 1, Len(y) - 1))

\* x < y for signed x and y of the same width
Less(x, y) == IF IsNeg(x) # IsNeg(y) THEN IsNeg(x) ELSE Below(x, y)

\* the same value at n bytes, n at least the width of x
Widen(x, n) == x \o [k \in 1..(n - Len(x)) |-> IF IsNeg(x) THEN 255 ELSE 0]

\* the low n bytes of x: a conversion to a narrower type
Narrow(x, n) == SubSeq(x, 1, n)

\* the value of x fits n bytes
Fits(x, n) == Widen(Narrow(x, n), Len(x)) = x

\* the natural number written with the decimal digits ds, at n bytes
RECURSIVE FromDigits(_, _)
FromDigits(ds, n) ==
    IF ds = <<>> THEN FromNat(0, n)
    ELSE Add(Scale(FromDigits(SubSeq(ds, 1, Len(ds) - 1), n), 10, 0),
             FromNat(ds[Len(ds)], n))

\* the integer written as an optional sign and decimal digits, exactly; the
\* strings of this model have at most 20 digits
Exact(str) ==
    IF str.sign = "-" THEN Neg(FromDigits(str.digits, WideBytes))
    ELSE FromDigits(str.digits, WideBytes)

\* math.MaxInt64
MaxInt64 == FromDigits(<<9, 2, 2, 3, 3, 7, 2, 0, 3, 6, 8, 5, 4, 7, 7, 5, 8, 0, 7>>, Int64Bytes)

ErrRange == "value out of range"

\* strconv.ParseInt(str, 10, 64)
ParseInt(str) ==
    IF Fits(Exact(str), Int64Bytes) THEN [v |-> Narrow(Exact(str), Int64Bytes), err |-> NoError]
    ELSE [v |-> FromNat(0, Int64Bytes), err |-> ErrRange]

(***************************************************************************)
(* timeutil.ParseISO8601 (timeutil/duration.go).  The regular expression   *)
(* has split the string: `matches` holds the leading sign, the counts of   *)
(* days, hours, minutes and seconds as an optional sign and digits (no     *)
(* digits when the group is absent) and the digits of the fraction.        *)
(***************************************************************************)
Nanosecond == FromNat(1, Int64Bytes)
Second == FromNat(1000000000, Int64Bytes)
Minute == Mul(FromNat(60, Int64Bytes), Second)
Hour == Mul(FromNat(60, Int64Bytes), Minute)
Day == Mul(Hour, FromNat(24, Int64Bytes))

\* (1<<63-1)/int64(unit), as the compiler evaluates it
MaxDays == FromNat(106751, Int64Bytes)
MaxHours == FromNat(2562047, Int64Bytes)
MaxMinutes == FromNat(153722867, Int64Bytes)
MaxSeconds == FromDigits(<<9, 2, 2, 3, 3, 7, 2, 0, 3, 6>>, Int64Bytes)

ErrInvalidDuration == "invalid duration"
ErrDurationOverflow == "time.Duration overflow"

\* addDuration: r := x + y; (x^r)&(y^r) < 0 reports the overflow
addDuration(x, y) ==
    LET sum == Add(x, y)
    IN  IF IsNeg(x) # IsNeg(sum) /\ IsNeg(y) # IsNeg(sum)
        THEN [v |-> FromNat(0, Int64Bytes), err |-> ErrDurationOverflow]
        ELSE [v |-> sum, err |-> NoError]

\* absInt64
absInt64(x) == IF ~IsNeg(x) THEN x ELSE Neg(x)

\* one group of the match: ParseInt, then the test against the largest count
ParseCount(str, limit) ==
    IF str.digits = <<>> THEN [v |-> FromNat(0, Int64Bytes), err |-> NoError]
    ELSE IF ParseInt(str).err # NoError THEN ParseInt(str)
    ELSE IF Less(limit, absInt64(ParseInt(str).v))
         THEN [v |-> FromNat(0, Int64Bytes), err |-> ErrInvalidDuration]
    ELSE ParseInt(str)

\* nanoMatch := (matches[7] + "000000000")[0:9]
NanoMatch(digits) ==
    [sign |-> "", digits |-> SubSeq(digits \o <<0, 0, 0, 0, 0, 0, 0, 0, 0>>, 1, 9)]

\* the chain of addDuration calls: the first error ends it
AddAll(total, terms) ==
    LET a1 == addDuration(total, terms[1])
        a2 == addDuration(a1.v, terms[2])
        a3 == addDuration(a2.v, terms[3])
        a4 == addDuration(a3.v, terms[4])
    IN  IF a1.err # NoError THEN a1
        ELSE IF a2.err # NoError THEN a2
        ELSE IF a3.err # NoError THEN a3
        ELSE a4

\* the result of ParseISO8601: the duration and the error
Parsed(duration, e) ==
    [duration |-> IF e = NoError THEN duration ELSE FromNat(0, Int64Bytes),
     err |-> IF e = NoError THEN NoError ELSE ErrInvalidDuration]

ParseISO8601(m) ==
    LET days == ParseCount(m.day, MaxDays)
        hours == ParseCount(m.hour, MaxHours)
        minutes == ParseCount(m.minute, MaxMinutes)
        seconds == ParseCount(m.second, MaxSeconds)
        nanos == ParseInt(NanoMatch(m.nano))
        sum == AddAll(Mul(days.v, Day),
                      <<Mul(hours.v, Hour), Mul(minutes.v, Minute),
                        Mul(seconds.v, Second), Mul(nanos.v, Nanosecond)>>)
    IN  IF /\ m.day.digits = <<>> /\ m.hour.digits = <<>>
           /\ m.minute.digits = <<>> /\ m.second.digits = <<>>
        THEN Parsed(<<>>, ErrInvalidDuration)
        ELSE IF days.err # NoError THEN Parsed(<<>>, days.err)
        ELSE IF hours.err # NoError THEN Parsed(<<>>, hours.err)
        ELSE IF minutes.err # NoError THEN Parsed(<<>>, minutes.err)
        ELSE IF seconds.err # NoError THEN Parsed(<<>>, seconds.err)
        ELSE IF nanos.err # NoError THEN Parsed(<<>>, nanos.err)
        ELSE IF sum.err # NoError THEN Parsed(<<>>, sum.err)
        ELSE Parsed(IF m.sign = "-" THEN Neg(sum.v) ELSE sum.v, NoError)

\* counts around the largest representable ones, and around the ends of int64
DayCounts ==
    {[sign |-> "", digits |-> <<>>],
     [sign |-> "", digits |-> <<1>>],
     [sign |-> "-", digits |-> <<1>>],
     [sign |-> "", digits |-> <<1, 0, 6, 7, 5, 1>>],
     [sign |-> "", digits |-> <<1, 0, 6, 7, 5, 2>>],
     [sign |-> "-", digits |-> <<1, 0, 6, 7, 5, 1>>],
     [sign |-> "-", digits |-> <<1, 0, 6, 7, 5, 2>>],
     [sign |-> "", digits |-> <<9, 2, 2, 3, 3, 7, 2, 0, 3, 6, 8, 5, 4, 7, 7, 5, 8, 0, 8>>],
     [sign |-> "-", digits |-> <<9, 2, 2, 3, 3, 7, 2, 0, 3, 6, 8, 5, 4, 7, 7, 5, 8, 0, 8>>],
     [sign |-> "-", digits |-> <<9, 2, 2, 3, 3, 7, 2, 0, 3, 6, 8, 5, 4, 7, 7, 5, 8, 0, 9>>]}
HourCounts ==
    {[sign |-> "", digits |-> <<>>],
     [sign |-> "", digits |-> <<2, 4>>],
     [sign |-> "", digits |-> <<2, 5, 6, 2, 0, 4, 7>>],
     [sign |-> "-", digits |-> <<2, 5, 6, 2, 0, 4, 8>>],
     [sign |-> "-", digits |-> <<9, 2, 2, 3, 3, 7, 2, 0, 3, 6, 8, 5, 4, 7, 7, 5, 8, 0, 8>>]}
MinuteCounts ==
    {[sign |-> "", digits |-> <<>>],
     [sign |-> "", digits |-> <<6, 0>>],
     [sign |-> "-", digits |-> <<1, 5, 3, 7, 2, 2, 8, 6, 7>>],
     [sign |-> "", digits |-> <<1, 5, 3, 7, 2, 2, 8, 6, 8>>]}
SecondCounts ==
    {[sign |-> "", digits |-> <<>>],
     [sign |-> "-", digits |-> <<6, 0>>],
     [sign |-> "+", digits |-> <<9, 2, 2, 3, 3, 7, 2, 0, 3, 6>>],
     [sign |-> "", digits |-> <<9, 2, 2, 3, 3, 7, 2, 0, 3, 7>>],
     [sign |-> "-", digits |-> <<9, 2, 2, 3, 3, 7, 2, 0, 3, 6, 8, 5, 4, 7, 7, 5, 8, 0, 8>>]}
Fractions == {<<>>, <<5>>, <<9, 9, 9, 9, 9, 9, 9, 9, 9>>}

InitDuration ==
    /\ NoParse
    /\ NoProcessor
    /\ NoConfig
    /\ op = ""
    /\ ret = <<>>
    /\ \E sign \in {"", "-"}, day \in DayCounts, hour \in HourCounts,
          minute \in MinuteCounts, second \in SecondCounts, nano \in Fractions :
          args = <<[sign |-> sign, day |-> day, hour |-> hour, minute |-> minute,
                    second |-> second, nano |-> nano]>>

ParseISO8601Call == Call("ParseISO8601", ParseISO8601(args[1]))

NextDuration == ParseISO8601Call

SpecDuration == InitDuration /\ [][NextDuration]_vars

\* the components of the duration, exactly: each count times its unit
ExactTerms(m) ==
    <<Mul(Exact(m.day), Widen(Day, WideBytes)),
      Mul(Exact(m.hour), Widen(Hour, WideBytes)),
      Mul(Exact(m.minute), Widen(Minute, WideBytes)),
      Mul(Exact(m.second), Widen(Second, WideBytes)),
      Exact(NanoMatch(m.nano))>>

\* the sum of the first k components, exactly
RECURSIVE RunningTotal(_, _)
RunningTotal(m, k) ==
    IF k = 0 THEN FromNat(0, WideBytes) ELSE Add(RunningTotal(m, k - 1), ExactTerms(m)[k])

\* the duration the string denotes, exactly
ExactDuration(m) ==
    IF m.sign = "-" THEN Neg(RunningTotal(m, 5)) ELSE RunningTotal(m, 5)

\* a count or a running total is beyond int64
BeyondInt64(m) ==
    \/ \E str \in {m.day, m.hour, m.minute, m.second} : ~Fits(Exact(str), Int64Bytes)
    \/ \E k \in 1..5 : ~Fits(RunningTotal(m, k), Int64Bytes)

\* a count is the minimum int64
HasMinInt64(m) ==
    \E str \in {m.day, m.hour, m.minute, m.second} :
        Exact(str) = Widen(Neg(Add(MaxInt64, FromNat(1, Int64Bytes))), WideBytes)

\* C22: ParseISO8601 returns an error whenever a count or the running total
\* of the duration does not fit int64, and a nil error comes with the exact
\* sum of the components, negative counts and the minimum int64 included.
C22_NoWraparound ==
    op = "ParseISO8601" =>
        /\ BeyondInt64(args[1]) => ret.err # NoError
        /\ ret.err = NoError => Widen(ret.duration, WideBytes) = ExactDuration(args[1])

\* what holds: the same, for strings none of whose counts is the minimum int64
C22_ExactWithoutMinInt64 ==
    (op = "ParseISO8601" /\ ~HasMinInt64(args[1])) =>
        /\ BeyondInt64(args[1]) => ret.err # NoError
        /\ ret.err = NoError => Widen(ret.duration, WideBytes) = ExactDuration(args[1])

\* P-9223372036854775808D is accepted, with a duration of 0
C22_Witness ==
    /\ op = "ParseISO8601"
    /\ args[1].day = [sign |-> "-", digits |-> <<9, 2, 2, 3, 3, 7, 2, 0, 3, 6, 8, 5, 4, 7, 7, 5, 8, 0, 8>>]
    /\ args[1].hour.digits = <<>>
    /\ ret = [duration |-> FromNat(0, Int64Bytes), err |-> NoError]

(***************************************************************************)
(* kin.ToQuarks (kin/utils.go).  A string is the sequence of the codes of  *)
(* its characters.                                                         *)
(***************************************************************************)
CodePlus == Ascii["+"]
CodeMinus == Ascii["-"]
CodePoint == Ascii["."]
CodeZero == Ascii["0"]

ErrSyntax == "invalid syntax"
ErrInvalidKin == "invalid kin value"
ErrNotRepresentable == "value cannot be represented"

\* the digits a string of digit characters stands for
DigitsOf(str) == [k \in DOMAIN str |-> str[k] - CodeZero]

AllDigits(str) == str # <<>> /\ \A k \in DOMAIN str : IsDigit(str[k])

\* strconv.ParseInt(str, 10, 64) on a string: an optional sign, then digits
Atoi(str) ==
    LET signed == str # <<>> /\ str[1] \in {CodePlus, CodeMinus}
        rest == IF signed THEN Tail(str) ELSE str
    IN  IF ~AllDigits(rest) THEN [v |-> FromNat(0, Int64Bytes), err |-> ErrSyntax]
        ELSE ParseInt([sign |-> IF signed /\ str[1] = CodeMinus THEN "-" ELSE "",
                       digits |-> DigitsOf(rest)])

\* strconv.ParseUint(str, 10, 64) on a string of at most 5 characters
ParseUint(str) ==
    IF ~AllDigits(str) THEN [v |-> FromNat(0, Int64Bytes), err |-> ErrSyntax]
    ELSE [v |-> FromDigits(DigitsOf(str), Int64Bytes), err |-> NoError]

\* fmt.Sprintf("%s%s", parts[1], strings.Repeat("0", 5-len(parts[1])))
Padded(str) == str \o [k \in 1..(5 - Len(str)) |-> CodeZero]

\* 1e5, the quarks of one kin
QuarksPerKin == FromNat(100000, Int64Bytes)

\* the decimal component: var quarks uint64, set when there are two parts
Quarks(parts) ==
    IF Len(parts) = 2 THEN ParseUint(Padded(parts[2]))
    ELSE [v |-> FromNat(0, Int64Bytes), err |-> NoError]

ToQuarks(val) ==
    LET parts == Split(val, CodePoint)
    IN  IF Len(parts) > 2 THEN [v |-> FromNat(0, Int64Bytes), err |-> ErrInvalidKin]
        ELSE IF Len(parts[1]) > 14
             THEN [v |-> FromNat(0, Int64Bytes), err |-> ErrNotRepresentable]
        ELSE IF Atoi(parts[1]).err # NoError
             THEN [v |-> FromNat(0, Int64Bytes), err |-> Atoi(parts[1]).err]
        ELSE IF Len(parts) = 2 /\ Len(parts[2]) > 5
             THEN [v |-> FromNat(0, Int64Bytes), err |-> ErrNotRepresentable]
        ELSE IF Quarks(parts).err # NoError
             THEN [v |-> FromNat(0, Int64Bytes), err |-> Quarks(parts).err]
        ELSE [v |-> Add(Mul(Atoi(parts[1]).v, QuarksPerKin), Quarks(parts).v),
              err |-> NoError]

\* a decimal string: its sign, the digits before the point, whether it has a
\* point, and the digits after it
Render(d) ==
    (IF d.sign = "-" THEN <<CodeMinus>> ELSE IF d.sign = "+" THEN <<CodePlus>> ELSE <<>>)
        \o [k \in DOMAIN d.int |-> CodeZero + d.int[k]]
        \o (IF d.point THEN <<CodePoint>> ELSE <<>>)
        \o [k \in DOMAIN d.frac |-> CodeZero + d.frac[k]]

IntegerParts ==
    {<<>>, <<0>>, <<1>>, <<7, 5>>,
     <<9, 2, 2, 3, 3, 7, 2, 0, 3, 6, 8, 5, 4, 7>>,
     <<9, 2, 2, 3, 3, 7, 2, 0, 3, 6, 8, 5, 4, 8>>,
     <<9, 9, 9, 9, 9, 9, 9, 9, 9, 9, 9, 9, 9>>,
     <<1, 2, 3, 4, 5, 6, 7, 8, 9, 0, 1, 2, 3, 4, 5>>}

FractionParts ==
    {<<>>, <<5>>, <<0, 0>>, <<0, 0, 0, 0, 1>>, <<9, 9, 9, 9, 9>>, <<1, 2, 3, 4, 5, 6>>}

InitQuarks ==
    /\ NoParse
    /\ NoProcessor
    /\ NoConfig
    /\ op = ""
    /\ ret = <<>>
    /\ \E sign \in {"", "-", "+"}, int \in IntegerParts, point \in BOOLEAN,
          frac \in FractionParts :
          /\ point \/ frac = <<>>
          /\ args = <<[sign |-> sign, int |-> int, point |-> point, frac |-> frac]>>

ToQuarksCall == Call("ToQuarks", ToQuarks(Render(args[1])))

NextQuarks == ToQuarksCall

SpecQuarks == InitQuarks /\ [][NextQuarks]_vars

\* an optional sign, an integer part and at most 5 fractional digits
IsDecimal(d) == Len(d.int) > 0 /\ Len(d.frac) <= 5

\* the value of the decimal string times 100000, exactly
ExactQuarks(d) ==
    LET whole == Mul(FromDigits(d.int, WideBytes), FromNat(100000, WideBytes))
        part == FromDigits(d.frac \o [k \in 1..(5 - Len(d.frac)) |-> 0], WideBytes)
    IN  IF d.sign = "-" THEN Neg(Add(whole, part)) ELSE Add(whole, part)

\* C23: for every input made of an optional sign, an integer part and at
\* most 5 fractional digits, negative amounts with a fraction included, a nil
\* error of ToQuarks comes with exactly the value of the string times 100000.
C23_ExactQuarks ==
    (op = "ToQuarks" /\ IsDecimal(args[1]) /\ ret.err = NoError)
        => Widen(ret.v, WideBytes) = ExactQuarks(args[1])

\* what holds: the same for the amounts that are not negative with a fraction
\* other than zero and whose quarks fit int64
C23_ExactInRange ==
    (/\ op = "ToQuarks" /\ IsDecimal(args[1]) /\ ret.err = NoError
     /\ Fits(ExactQuarks(args[1]), Int64Bytes)
     /\ (args[1].sign = "-" => \A k \in DOMAIN args[1].frac : args[1].frac[k] = 0))
        => Widen(ret.v, WideBytes) = ExactQuarks(args[1])

\* "-1.5" is accepted as -50000 quarks
C23_Witness ==
    /\ op = "ToQuarks"
    /\ args[1] = [sign |-> "-", int |-> <<1>>, point |-> TRUE, frac |-> <<5>>]
    /\ ret = [v |-> Neg(FromNat(50000, Int64Bytes)), err |-> NoError]

\* ---------------------------------------------------------------------------
\* the creation appended last
LastCreation(regions) ==
    regions[Len(regions)].Creations[Len(regions[Len(regions)].Creations)]

\* the iteration at the cursor parses a bare creation and returns no error
ParsesBareCreation ==
    ParseInstruction /\ isSystem(instructions, i) /\ err' = NoError

\* C24: after the SetAuthority(CloseAccount) of a bare creation at the
\* cursor, the next instruction is looked at once.  If there is none the
\* loop ends and the creation has no AccountHolder; if it decodes as a
\* SetAuthority (of type AccountHolder on the created account, or the call
\* fails) it is recorded as the AccountHolder and the cursor moves past it;
\* if it does not decode the creation has no AccountHolder and the cursor is
\* on that instruction, which the next iteration dispatches.  The cursor
\* never moves back, so no instruction is dispatched twice.
C24_OptionalAccountHolder ==
    /\ [][ParsesBareCreation =>
            IF i + 3 = Len(instructions)
            THEN /\ LastCreation(parsed'.Regions).AccountHolder = None
                 /\ i' = i + 3
                 /\ pc' = "validate"
            ELSE IF DecompileSetAuthority(instructions, i + 3).err = NoError
            THEN /\ LastCreation(parsed'.Regions).AccountHolder
                        = DecompileSetAuthority(instructions, i + 3).v
                 /\ DecompileSetAuthority(instructions, i + 3).v[1].Type
                        = AuthorityTypeAccountHolder
                 /\ DecompileSetAuthority(instructions, i + 3).v[1].Account
                        = DecompileCreateAccount(instructions, i).v[1].Address
                 /\ i' = i + 4
            ELSE /\ LastCreation(parsed'.Regions).AccountHolder = None
                 /\ i' = i + 3
                 /\ pc' = "loop"]_vars
    /\ [][ParseInstruction => (i' >= i /\ (err' = NoError => i' > i))]_vars

\* a bare creation followed by a transfer: the creation has no AccountHolder
\* and the transfer is recorded once
C24_Witness ==
    /\ Succeeded
    /\ instructions = <<CreateA, InitializeA, CloseAuthorityA, Transfer10>>
    /\ Len(parsed.Regions) = 1
    /\ Len(parsed.Regions[1].Creations) = 1
    /\ parsed.Regions[1].Creations[1].AccountHolder = None
    /\ Len(parsed.Regions[1].Transfers) = 1

\* ---------------------------------------------------------------------------
\* C28: however processTask ended, the goroutine that runs the handler ends
\* once the handler has returned: no handler goroutine is at `result <-`
\* after the processTask call that would receive its value has returned.
C28_NoGoroutineLeftSending ==
    \A m \in Messages : messages[m].goroutine # "sending"

\* processTask returned at the extension limit and the goroutine of that
\* delivery has returned from the handler since: it is at `result <-`
C28_Witness ==
    \E m \in Messages :
        /\ messages[m].last = "max visibility extensions"
        /\ messages[m].goroutine = "sending"
        /\ \A w \in Workers : workers[w].pc \in {"check", "receive", "stopped"}

(***************************************************************************)
(* Submit and Shutdown of the SQS task queue, called from NumCallers       *)
(* goroutines, one call after another in each.  The task workers only      *)
(* poll here: their part in a shutdown is whether they have stopped when   *)
(* waitForGroup looks, and the grace period may run out at any moment.     *)
(***************************************************************************)
NumCallers == 2

Callers == 1..NumCallers

\* a caller between two calls; `late` says that the call began after a
\* Shutdown had returned, `shutdowns` that a Shutdown of this caller returned
IdleCaller ==
    [pc |-> "idle", call |-> "", late |-> FALSE, result |-> "", sent |-> FALSE,
     shutdowns |-> FALSE]

InitShutdown ==
    /\ NoParse
    /\ NoConfig
    /\ op = "" /\ args = <<>> /\ ret = <<>>
    /\ conf \in [VisibilityExtensionEnabled : BOOLEAN,
                  MaxVisibilityExtensions : 0..MaxExtensions]
    /\ shutdownCh = FALSE
    /\ messages = <<>>
    /\ workers = [w \in Workers |-> IdleWorker]
    /\ callers = [c \in Callers |-> IdleCaller]
    /\ shutdownOnce = "new"

\* some Shutdown call has returned
ShutdownReturned == \E c \in Callers : callers[c].shutdowns

\* caller c begins a call
Begin(c, name) ==
    [callers[c] EXCEPT !.call = name, !.late = ShutdownReturned, !.result = "",
                       !.sent = FALSE]

\* the step of one caller, which leaves the workers and the queue alone
CallerStep(c, next) ==
    /\ callers' = [callers EXCEPT ![c] = next]
    /\ UNCHANGED <<conf, messages, workers, parser, op, args, ret, etcd>>

\* sync.Once.Do: the first call runs the function, a call made while it runs
\* waits for it, a call made after it has returned does nothing
OnceDo(once) ==
    IF once = "done" THEN "skip" ELSE IF once = "running" THEN "wait" ELSE "run"

\* q.shutdownOnce.Do(func() {...}) is entered
ShutdownCall(c) ==
    /\ callers[c].pc = "idle"
    /\ \E next \in {Begin(c, "Shutdown")}, branch \in {OnceDo(shutdownOnce)} :
          /\ CallerStep(c,
                 IF branch = "skip" THEN [next EXCEPT !.shutdowns = TRUE]
                 ELSE IF branch = "wait" THEN [next EXCEPT !.pc = "locked"]
                 ELSE [next EXCEPT !.pc = "close"])
          /\ shutdownOnce' = IF branch = "run" THEN "running" ELSE shutdownOnce
          /\ UNCHANGED shutdownCh

\* close(q.shutdownCh); closing a closed channel panics
CloseShutdownCh(c) ==
    /\ callers[c].pc = "close"
    /\ CallerStep(c, [callers[c] EXCEPT !.pc = IF shutdownCh THEN "panic" ELSE "wait"])
    /\ shutdownCh' = TRUE
    /\ UNCHANGED shutdownOnce

\* wg.Wait() has returned: every worker has left taskWorker
WorkersDone == \A w \in Workers : workers[w].pc = "stopped"

\* waitForGroup returns, true if the workers are done and false when the
\* grace period is over; the function of the Once returns and so does Shutdown
WaitForGroup(c, ok) ==
    /\ callers[c].pc = "wait"
    /\ ok => WorkersDone
    /\ CallerStep(c, [callers[c] EXCEPT !.pc = "idle", !.shutdowns = TRUE])
    /\ shutdownOnce' = "done"
    /\ UNCHANGED shutdownCh

\* a Shutdown that waited for the running one returns after it
ShutdownUnblocked(c) ==
    /\ callers[c].pc = "locked"
    /\ shutdownOnce = "done"
    /\ CallerStep(c, [callers[c] EXCEPT !.pc = "idle", !.shutdowns = TRUE])
    /\ UNCHANGED <<shutdownCh, shutdownOnce>>

\* a faulty Submit that does not look at shutdownCh
ShuttingDownNever(closed) == FALSE

\* select { case <-q.shutdownCh: return errors.New(...); default: }
ShuttingDown(closed) == closed

\* Submit is entered and looks at shutdownCh
SubmitCall(c) ==
    /\ callers[c].pc = "idle"
    /\ \E next \in {Begin(c, "Submit")} :
          CallerStep(c,
              IF ShuttingDown(shutdownCh) THEN [next EXCEPT !.result = "error"]
              ELSE [next EXCEPT !.pc = "marshal"])
    /\ UNCHANGED <<shutdownCh, shutdownOnce>>

\* marshalTask, which fails on a nil message
MarshalTask(c, ok) ==
    /\ callers[c].pc = "marshal"
    /\ CallerStep(c,
           IF ok THEN [callers[c] EXCEPT !.pc = "send"]
           ELSE [callers[c] EXCEPT !.pc = "idle", !.result = "error"])
    /\ UNCHANGED <<shutdownCh, shutdownOnce>>

\* SendMessageRequest(...).Send(ctx) and the return of Submit
SendMessage(c, ok) ==
    /\ callers[c].pc = "send"
    /\ CallerStep(c,
           IF ok THEN [callers[c] EXCEPT !.pc = "idle", !.result = "nil", !.sent = TRUE]
           ELSE [callers[c] EXCEPT !.pc = "idle", !.result = "error"])
    /\ UNCHANGED <<shutdownCh, shutdownOnce>>

NextShutdown ==
    \/ \E w \in Workers : CheckShutdown(w)
    \/ \E w \in Workers : ReceiveNothing(w)
    \/ \E c \in Callers : ShutdownCall(c)
    \/ \E c \in Callers : CloseShutdownCh(c)
    \/ \E c \in Callers, ok \in BOOLEAN : WaitForGroup(c, ok)
    \/ \E c \in Callers : ShutdownUnblocked(c)
    \/ \E c \in Callers : SubmitCall(c)
    \/ \E c \in Callers, ok \in BOOLEAN : MarshalTask(c, ok)
    \/ \E c \in Callers, ok \in BOOLEAN : SendMessage(c, ok)

SpecShutdown == InitShutdown /\ [][NextShutdown]_vars

\* a Submit call of caller c that began after a Shutdown had returned
LateSubmit(c) == callers[c].call = "Submit" /\ callers[c].late

\* ---------------------------------------------------------------------------
\* C25: once Shutdown has returned, shutdownCh is closed, and a Submit that
\* begins after that returns an error without getting as far as marshalling
\* or sending; no Shutdown call, sequential or concurrent, closes the closed
\* channel, which would panic, and each returns only when the Once is done.
C25_SubmitAfterShutdownFails ==
    /\ ShutdownReturned => shutdownCh /\ shutdownOnce = "done"
    /\ \A c \in Callers :
          /\ callers[c].pc # "panic"
          /\ LateSubmit(c) =>
                /\ callers[c].pc = "idle"
                /\ callers[c].result = "error"
                /\ ~callers[c].sent

\* every caller has returned from a Shutdown, one of them from a second one
\* after that, and one has made a Submit since, which returned the error
C25_Witness ==
    /\ \A c \in Callers : callers[c].shutdowns
    /\ \E c \in Callers : callers[c].call = "Shutdown" /\ callers[c].late
    /\ \E c \in Callers : LateSubmit(c) /\ callers[c].result = "error"

(***************************************************************************)
(* Account.Unmarshal on a receiver that is in use: the Account a caller    *)
(* unmarshals into holds the fields of an earlier account.                 *)
(***************************************************************************)
\* an Account that has every optional field set
FullAccount ==
    [Mint |-> Mint, Owner |-> Wallet, Amount |-> 7, Delegate |-> AddrA, State |-> 1,
     IsNative |-> Some(256), DelegatedAmount |-> 7, CloseAuthority |-> AddrB]

InitReuse ==
    /\ NoParse
    /\ NoProcessor
    /\ NoConfig
    /\ op = ""
    /\ ret = <<>>
    /\ args \in [a : Accounts, receiver : {ZeroAccount, FullAccount}]

\* receiver.Unmarshal(a.Marshal())
UnmarshalInto ==
    Call("UnmarshalInto", AccountUnmarshal(args.receiver, AccountMarshal(args.a)))

NextReuse == UnmarshalInto

SpecReuse == InitReuse /\ [][NextReuse]_vars

\* ---------------------------------------------------------------------------
\* C27: the Account that Unmarshal leaves in the receiver depends only on the
\* 165 input bytes: it is the Account a fresh receiver holds after
\* unmarshalling the same bytes, whatever the receiver held before, with nil
\* for each of Delegate, IsNative and CloseAuthority that the bytes encode as
\* absent.
C27_DependsOnlyOnInput ==
    op = "UnmarshalInto" =>
        /\ ret.ok
        /\ ret.a = AccountUnmarshal(ZeroAccount, AccountMarshal(args.a)).a
        /\ args.a.Delegate = <<>> => ret.a.Delegate = <<>>
        /\ args.a.IsNative = None => ret.a.IsNative = None
        /\ args.a.CloseAuthority = <<>> => ret.a.CloseAuthority = <<>>

\* a receiver with a delegate has unmarshalled an account without one
C27_Witness ==
    /\ op = "UnmarshalInto"
    /\ args.receiver = FullAccount
    /\ args.a.Delegate = <<>>
    /\ ret.ok

(***************************************************************************)
(* version.GetCtxKinVersion and version.GetCtxDesiredVersion.  What the    *)
(* lookup of the header in the context returned is the input: an error, or *)
(* the header's value, empty when the header is not set.                   *)
(***************************************************************************)
minVersion == 2
maxVersion == 4
defaultVersion == 3

ErrNoMetadata == "no metadata in context"
ErrNoDesiredVersion == "no desired kin version set"

\* errors.Wrap(err, message), which returns nil when err is nil
Wrap(e, message) == IF e = NoError THEN NoError ELSE message \o ": " \o e

\* i < int(minVersion) || i > int(maxVersion)
OutOfRange(n) ==
    Less(n, FromNat(minVersion, Int64Bytes)) \/ Less(FromNat(maxVersion, Int64Bytes), n)

\* KinVersion(i) for an i in range
KinVersion(n) == CHOOSE v \in minVersion..maxVersion : FromNat(v, Int64Bytes) = n

\* from strconv.Atoi to the return, the same in both functions
ParseVersion(val, message) ==
    LET atoi == Atoi(val)
    IN  IF atoi.err # NoError
        THEN [v |-> 0,
              err |-> Wrap(atoi.err, "could not parse integer version from string")]
        ELSE IF OutOfRange(atoi.v) THEN [v |-> 0, err |-> Wrap(atoi.err, message)]
        ELSE [v |-> KinVersion(atoi.v), err |-> NoError]

GetCtxKinVersion(header) ==
    IF header.err # NoError
    THEN [v |-> 0, err |-> Wrap(header.err, "failed to get kin version header")]
    ELSE IF Len(header.val) = 0 THEN [v |-> defaultVersion, err |-> NoError]
    ELSE ParseVersion(header.val, "invalid kin version")

GetCtxDesiredVersion(header) ==
    IF header.err # NoError
    THEN [v |-> 0, err |-> Wrap(header.err, "failed to get desired kin version header")]
    ELSE IF Len(header.val) = 0 THEN [v |-> 0, err |-> ErrNoDesiredVersion]
    ELSE ParseVersion(header.val, "invalid desired kin version")

\* the integer parts of the header values: none, every digit, a leading
\* zero, two digits, and more digits than an int holds
VersionDigits ==
    {<<>>, <<0, 3>>, <<1, 0>>, <<9, 2, 2, 3, 3, 7, 2, 0, 3, 6, 8, 5, 4, 7, 7, 5, 8, 0, 8>>}
        \cup {<<d>> : d \in 0..9}

InitVersion ==
    /\ NoParse
    /\ NoProcessor
    /\ NoConfig
    /\ op = ""
    /\ ret = <<>>
    /\ \/ args = [err |-> ErrNoMetadata, val |-> <<>>]
       \/ \E sign \in {"", "-", "+"}, int \in VersionDigits, point \in BOOLEAN :
             args = [err |-> NoError,
                     val |-> Render([sign |-> sign, int |-> int, point |-> point,
                                     frac |-> <<>>])]

GetCtxKinVersionCall == Call("GetCtxKinVersion", GetCtxKinVersion(args))

GetCtxDesiredVersionCall == Call("GetCtxDesiredVersion", GetCtxDesiredVersion(args))

NextVersion == GetCtxKinVersionCall \/ GetCtxDesiredVersionCall

SpecVersion == InitVersion /\ [][NextVersion]_vars

\* ---------------------------------------------------------------------------
\* C30: GetCtxKinVersion and GetCtxDesiredVersion return a nil error only
\* with a version from 2 to 4 (GetCtxKinVersion returns the default 3 when
\* no header is set), and a header that parses to an integer outside 2..4
\* yields a non-nil error.
C30_NilErrorOnlyInRange ==
    op \in {"GetCtxKinVersion", "GetCtxDesiredVersion"} =>
        /\ ret.err = NoError => ret.v \in minVersion..maxVersion
        /\ (args.err = NoError /\ Atoi(args.val).err = NoError
                /\ OutOfRange(Atoi(args.val).v)) => ret.err # NoError

\* the header "5" was looked up
C30_Witness ==
    /\ op = "GetCtxKinVersion"
    /\ args.err = NoError
    /\ args.val = <<CodeZero + 5>>

(***************************************************************************)
(* ParseTransaction on transactions of the instructions it accepts: a      *)
(* memo, the instructions of a bare and of an associated creation, a       *)
(* transfer and a closure, in any order.                                   *)
(***************************************************************************)
AccountedAlphabet ==
    {TextAbc, CreateA, InitializeA, CloseAuthorityA, HolderA, AssocA, Transfer10, ClosureA}

InitAccounted == InitWith(SeqsUpTo(AccountedAlphabet, MaxAccountedLen), {1}, {None})

SpecAccounted == InitAccounted /\ [][Next]_vars

\* the instructions a recorded creation stands for
InstructionsOf(c) ==
    IF c.CreateAssoc # None THEN 2 ELSE IF c.AccountHolder # None THEN 4 ELSE 3

\* the instructions the regions account for: the memo that opened each
\* region but the first, and what each region records
Accounted(regions) ==
    (Len(regions) - 1)
    + SumSeq([j \in 1..Len(regions) |->
                 SumSeq([c \in 1..Len(regions[j].Creations) |->
                            InstructionsOf(regions[j].Creations[c])])
                 + Len(regions[j].Transfers) + Len(regions[j].Closures)])

\* the places instruction k is recorded in: as a memo, in a creation
\* sequence, as a transfer, as a closure
Places(m, k) ==
    {place \in {"memo", "creation", "transfer", "closure"} :
        \/ place = "memo" /\ isMemo(m, k)
        \/ place = "creation" /\ (k \in CreationStarts(m) \/ InCreationSequence(m, k))
        \/ /\ place = "transfer"
           /\ \E n \in 1..Len(TransferIndexes(m, MemosBefore(m, k))) :
                 TransferIndexes(m, MemosBefore(m, k))[n] = k
        \/ /\ place = "closure"
           /\ \E n \in 1..Len(ClosureIndexes(m, MemosBefore(m, k))) :
                 ClosureIndexes(m, MemosBefore(m, k))[n] = k}

\* ---------------------------------------------------------------------------
\* C26: on every accepted transaction the instruction count is the number
\* of regions opened by a memo, plus 3 or 4 for each bare creation (4 with
\* an AccountHolder), plus 2 for each associated creation, plus the recorded
\* transfers and closures; every instruction has exactly one place, and
\* each region records exactly the instructions that have their place in it.
C26_EveryInstructionAccounted ==
    Succeeded =>
        /\ Len(instructions) = Accounted(parsed.Regions)
        /\ \A k \in Indexes(instructions) : Cardinality(Places(instructions, k)) = 1
        /\ \A j \in 0..(Len(parsed.Regions) - 1) :
               RegionHolds(instructions, parsed.Regions, j)

\* a memo, a bare creation with its AccountHolder: 1 + 4 instructions; and
\* a memo, an associated creation, a transfer and a closure: 1 + 2 + 1 + 1
C26_Witness ==
    /\ Succeeded
    /\ Len(instructions) = MaxAccountedLen
    /\ Len(parsed.Regions) = 2
    /\ \/ \E c \in 1..Len(parsed.Regions[2].Creations) :
             parsed.Regions[2].Creations[c].AccountHolder # None
       \/ /\ Len(parsed.Regions[2].Closures) = 1
          /\ Len(parsed.Regions[2].Transfers) = 1

====
